---- MODULE Spec2Model ----
(***************************************************************************)
(* rusty-lox: the tree-walking interpreter (src/src/interpreter.rs) run    *)
(* over declaration lists, as a state machine.                             *)
(*                                                                         *)
(* The Rust evaluator is a family of mutually recursive functions; each is *)
(* an operator here with the same name, threading the interpreter state    *)
(* st = [environment_stack, out, fuel] explicitly.  `out` is what was      *)
(* written to stdout.  `fuel` is the number of AST nodes the evaluator may *)
(* still enter: when it is 0 the evaluation is suspended ("Halt") exactly  *)
(* where it stands, so that the state machine below, giving one more unit  *)
(* of fuel per Step, walks through every intermediate state of a run.      *)
(***************************************************************************)
EXTENDS Integers, Sequences, FiniteSets, TLC

VARIABLES
    history,            \* the programs handed to interpret so far, the current one last
    base,               \* the Interpreter as the current interpret call found it
    steps,              \* AST nodes the current interpret call has entered
    environment_stack,  \* Interpreter.environment_stack
    out,                \* the lines written to stdout
    result,             \* "New", "Running", or what interpret returned
    file,               \* the source text read from the file (0: none)
    lexer,              \* the Lexer, and what its last call of next returned
    parser              \* the Parser with the tokens and declarations of Parser::parse

vars == <<history, base, steps, environment_stack, out, result, file, lexer, parser>>

(***************************************************************************)
(* Bounds.                                                                 *)
(***************************************************************************)
MaxList == 256
MaxSteps == 70
MaxLines == 2

(***************************************************************************)
(* span.rs                                                                 *)
(***************************************************************************)
Min(a, b) == IF a <= b THEN a ELSE b
Max(a, b) == IF a >= b THEN a ELSE b

Span_new(start, end) == [start |-> start, end |-> end]

\* &source[start..end]; source is the sequence of the text's characters
Span_slice(self, source) == SubSeq(source, self.start + 1, self.end)

Span_combine(self, other) ==
    Span_new(Min(self.start, other.start), Max(self.end, other.end))

(***************************************************************************)
(* lexer.rs: Token                                                         *)
(***************************************************************************)
Token_new(span_start, span_end, type_) ==
    [type_ |-> type_, span |-> Span_new(span_start, span_end)]

(***************************************************************************)
(* expression.rs, statement.rs: the AST.  An absent Option is NoneNode.    *)
(***************************************************************************)
NoneNode == [expr |-> "None", stmt |-> "None"]
IsSomeExpression(x) == x.expr # "None"
IsSomeStatement(x) == x.stmt # "None"

AssignmentExpression(name, value) ==
    [expr |-> "Assignment", name |-> name, value |-> value]
BinaryExpression(left, right, operator) ==
    [expr |-> "Binary", left |-> left, right |-> right, operator |-> operator]
CallExpression(callee, closing_paren, arguments) ==
    [expr |-> "Call", callee |-> callee, closing_paren |-> closing_paren,
     arguments |-> arguments]
GroupingExpression(expression) ==
    [expr |-> "Grouping", expression |-> expression]
LiteralString(value) == [expr |-> "Literal", literal |-> "String_", value |-> value]
LiteralNumber(value) == [expr |-> "Literal", literal |-> "Number", value |-> value]
LiteralBoolean(span, value) ==
    [expr |-> "Literal", literal |-> "Boolean", span |-> span, value |-> value]
LiteralNil(span) == [expr |-> "Literal", literal |-> "Nil", span |-> span]
LogicalExpression(left, right, operator) ==
    [expr |-> "Logical", left |-> left, right |-> right, operator |-> operator]
UnaryExpression(operator, right) ==
    [expr |-> "Unary", operator |-> operator, right |-> right]
VariableExpression(name) == [expr |-> "Variable", name |-> name]

FunctionDeclaration(name, parameters, body) ==
    [decl |-> "Function", name |-> name, parameters |-> parameters, body |-> body]
VariableDeclaration(name, initialiser) ==
    [decl |-> "Variable", name |-> name, initialiser |-> initialiser]
StatementDeclaration(statement) == [decl |-> "Statement", statement |-> statement]

PrintStatement(expression) == [stmt |-> "Print", expression |-> expression]
ExpressionStatement(expression) == [stmt |-> "Expression", expression |-> expression]
BlockStatement(declarations) == [stmt |-> "Block", declarations |-> declarations]
IfStatement(condition, then_branch, else_branch) ==
    [stmt |-> "If", condition |-> condition, then_branch |-> then_branch,
     else_branch |-> else_branch]
WhileStatement(condition, body) ==
    [stmt |-> "While", condition |-> condition, body |-> body]
ReturnStatement(value) == [stmt |-> "Return", value |-> value]

\* Expression::span reaches todo!() for Grouping, Logical and Unary (and for
\* the never-built Get/Set/Super/This), in the node or in a child it visits.
RECURSIVE Expression_span_unimplemented(_)
Expression_span_unimplemented(e) ==
    CASE e.expr \in {"Grouping", "Logical", "Unary"} -> TRUE
      [] e.expr = "Binary" ->
            \/ Expression_span_unimplemented(e.left)
            \/ Expression_span_unimplemented(e.right)
      [] e.expr = "Call" ->
            \/ Expression_span_unimplemented(e.callee)
            \/ \E i \in 1..Len(e.arguments) :
                   Expression_span_unimplemented(e.arguments[i])
      [] OTHER -> FALSE

RECURSIVE SpanFold(_, _, _)
RECURSIVE Expression_span(_)
\* arguments.iter().fold(paren.span, |acc, el| acc.combine(el.span()))
SpanFold(acc, arguments, i) ==
    IF i > Len(arguments) THEN acc
    ELSE SpanFold(Span_combine(acc, Expression_span(arguments[i])), arguments, i + 1)

LiteralExpression_span(e) ==
    IF e.literal \in {"String_", "Number"} THEN e.value.span ELSE e.span

\* Expression::span where it is implemented
Expression_span(e) ==
    CASE e.expr = "Assignment" -> e.name.span
      [] e.expr = "Binary" ->
            Span_combine(Span_combine(Expression_span(e.left), e.operator.span),
                         Expression_span(e.right))
      [] e.expr = "Call" ->
            Span_combine(Span_combine(Expression_span(e.callee), e.closing_paren.span),
                         SpanFold(e.closing_paren.span, e.arguments, 1))
      [] e.expr = "Literal" -> LiteralExpression_span(e)
      [] e.expr = "Variable" -> e.name.span

(***************************************************************************)
(* interpreter/value.rs                                                    *)
(***************************************************************************)
Value_String(span, string) == [type |-> "String", span |-> span, string |-> string]
Value_Number(span, number) == [type |-> "Number", span |-> span, number |-> number]
Value_Boolean(span, boolean) == [type |-> "Boolean", span |-> span, boolean |-> boolean]
Value_Nil(span) == [type |-> "Nil", span |-> span]
\* the Callable that evaluate_declaration builds: name span, parameter names, body
Value_Callable(name_span, parameters, body) ==
    [type |-> "Callable", name_span |-> name_span, parameters |-> parameters,
     body |-> body]
NoValue == [type |-> "None"]

\* Value::span is todo!() for a Callable
Value_span_unimplemented(value) == value.type = "Callable"
Value_span(value) == value.span

(***************************************************************************)
(* interpreter/error.rs                                                    *)
(***************************************************************************)
NoError == [error |-> "None"]
Error_type_error(expected, got, source_token_span) ==
    [error |-> "Type", expected |-> expected, got |-> got,
     source_token_span |-> source_token_span]
Error_VariableDoesntExist(token) == [error |-> "VariableDoesntExist", token |-> token]
Error_NotCallable(span) == [error |-> "NotCallable", span |-> span]
Error_Arity(expected, got, call_span) ==
    [error |-> "Arity", expected |-> expected, got |-> got, call_span |-> call_span]

(***************************************************************************)
(* Outcomes of an evaluation step.  Ok/Err/Return are the Rust Results     *)
(* (Return is ErrorOrReturn::Return).  Panic is a todo!() or unwrap that   *)
(* aborts the process, Halt is fuel exhaustion, Unmodelled is an f64 the   *)
(* integers of this model cannot hold; these three unwind without running  *)
(* any further code.                                                       *)
(***************************************************************************)
Ok(value, st) == [kind |-> "Ok", value |-> value, error |-> NoError, st |-> st]
Err(error, st) == [kind |-> "Err", value |-> NoValue, error |-> error, st |-> st]
Return(value, st) == [kind |-> "Return", value |-> value, error |-> NoError, st |-> st]
Panic(st) == [kind |-> "Panic", value |-> NoValue, error |-> NoError, st |-> st]
Halt(st) == [kind |-> "Halt", value |-> NoValue, error |-> NoError, st |-> st]
Unmodelled(st) == [kind |-> "Unmodelled", value |-> NoValue, error |-> NoError, st |-> st]

Tick(st) == [st EXCEPT !.fuel = @ - 1]

(***************************************************************************)
(* interpreter/environment.rs.  interpreter.rs builds every scope with     *)
(* Environment::new, so parent is None in every scope there is and the     *)
(* parent arms of get and assign fall through to "not found".              *)
(***************************************************************************)
EmptyMap == [n \in {} |-> NoValue]
Environment_new == [parent |-> "None", values |-> EmptyMap]

\* HashMap::insert
Environment_define(self, name, value) ==
    [self EXCEPT !.values =
        [n \in (DOMAIN self.values) \cup {name} |->
            IF n = name THEN value ELSE self.values[n]]]

\* Option<Rc<Value>>: NoValue is None
Environment_get(self, name) ==
    IF name \in DOMAIN self.values THEN self.values[name] ELSE NoValue

\* faulty variant: an absent name is inserted, as HashMap::insert would
Environment_assign_insert(self, name, new_value) ==
    [ok |-> TRUE, env |-> Environment_define(self, name, new_value)]

\* Result<(), ()>
Environment_assign(self, name, new_value) ==
    IF name \in DOMAIN self.values
    THEN [ok |-> TRUE, env |-> [self EXCEPT !.values[name] = new_value]]
    ELSE [ok |-> FALSE, env |-> self]

(***************************************************************************)
(* interpreter.rs: the scope stack                                         *)
(***************************************************************************)
\* faulty variant: the binding lands in the outermost scope
Interpreter_define_outermost(stack, name, value) ==
    [stack EXCEPT ![1] = Environment_define(stack[1], name, value)]

\* current_scope().define(name, value)
Interpreter_define(stack, name, value) ==
    [stack EXCEPT ![Len(stack)] = Environment_define(stack[Len(stack)], name, value)]

RECURSIVE Interpreter_assign_from(_, _, _, _)
\* for environment in self.environment_stack.iter_mut().rev()
Interpreter_assign_from(stack, i, name, new_value) ==
    IF i = 0 THEN [ok |-> FALSE, stack |-> stack]
    ELSE LET r == Environment_assign(stack[i], name, new_value) IN
         IF r.ok THEN [ok |-> TRUE, stack |-> [stack EXCEPT ![i] = r.env]]
         ELSE Interpreter_assign_from(stack, i - 1, name, new_value)

Interpreter_assign(stack, name, new_value) ==
    Interpreter_assign_from(stack, Len(stack), name, new_value)

RECURSIVE Interpreter_get_from(_, _, _)
Interpreter_get_from(stack, i, name) ==
    IF i = 0 THEN NoValue
    ELSE LET r == Environment_get(stack[i], name) IN
         IF r.type # "None" THEN r ELSE Interpreter_get_from(stack, i - 1, name)

\* the token's text is looked up: token.span.slice(source)
Interpreter_get(stack, source, token) ==
    Interpreter_get_from(stack, Len(stack), Span_slice(token.span, source))

Push(st) == [st EXCEPT !.environment_stack = Append(@, Environment_new)]
Pop(st) == [st EXCEPT !.environment_stack = SubSeq(@, 1, Len(@) - 1)]
Define(st, name, value) ==
    [st EXCEPT !.environment_stack = Interpreter_define(@, name, value)]

(***************************************************************************)
(* f64 text: str::parse and Display, on the integers                       *)
(***************************************************************************)
Digits == <<"0", "1", "2", "3", "4", "5", "6", "7", "8", "9">>
IsDigit(c) == \E d \in 1..Len(Digits) : Digits[d] = c
DigitValue(c) == (CHOOSE d \in 1..Len(Digits) : Digits[d] = c) - 1

RECURSIVE ParseDigits(_, _)
ParseDigits(text, acc) ==
    IF text = <<>> THEN acc
    ELSE ParseDigits(Tail(text), acc * Len(Digits) + DigitValue(Head(text)))

IsIntegerText(text) == text # <<>> /\ \A i \in 1..Len(text) : IsDigit(text[i])

RECURSIVE NatToText(_)
NatToText(n) ==
    IF n < Len(Digits) THEN <<Digits[n + 1]>>
    ELSE NatToText(n \div Len(Digits)) \o <<Digits[(n % Len(Digits)) + 1]>>

NumberToText(n) == IF n < 0 THEN <<"-">> \o NatToText(-n) ELSE NatToText(n)

Abs(n) == IF n < 0 THEN -n ELSE n
F64DivExact(l, r) == r # 0 /\ Abs(l) % Abs(r) = 0
F64Div(l, r) ==
    IF (l < 0) = (r < 0) THEN Abs(l) \div Abs(r) ELSE -(Abs(l) \div Abs(r))

(***************************************************************************)
(* interpreter.rs: values                                                  *)
(***************************************************************************)
string_description_unimplemented(value) == value.type = "Callable"
string_description(value) == value.type

\* Ok(number) in .value, or the TypeError, or the panic of Value::span /
\* string_description on a Callable
as_number(value, st) ==
    IF value.type = "Number" THEN Ok(value.number, st)
    ELSE IF Value_span_unimplemented(value) THEN Panic(st)
    ELSE IF string_description_unimplemented(value) THEN Panic(st)
    ELSE Err(Error_type_error("Number", string_description(value), Value_span(value)), st)

\* faulty variant: a Number is formatted instead of refused
as_string_coerces(value, st) ==
    CASE value.type = "String" -> Ok(value.string, st)
      [] value.type = "Number" -> Ok(NumberToText(value.number), st)
      [] OTHER -> Panic(st)

as_string(value, st) ==
    CASE value.type = "String" -> Ok(value.string, st)
      [] value.type = "Number" -> Err(Error_type_error("String", "Number", value.span), st)
      [] OTHER -> Panic(st)

is_truthy(value) ==
    CASE value.type = "Boolean" -> value.boolean
      [] value.type = "Nil" -> FALSE
      [] OTHER -> TRUE

\* the struct fields are evaluated in order: the combined span first
plus_or_concat(left, right, st) ==
    CASE left.type = "String" ->
            IF Value_span_unimplemented(right) THEN Panic(st)
            ELSE LET r == as_string(right, st) IN
                 IF r.kind # "Ok" THEN r
                 ELSE Ok(Value_String(Span_combine(left.span, Value_span(right)),
                                      left.string \o r.value), st)
      [] left.type = "Number" ->
            IF Value_span_unimplemented(right) THEN Panic(st)
            ELSE LET r == as_number(right, st) IN
                 IF r.kind # "Ok" THEN r
                 ELSE Ok(Value_Number(Span_combine(left.span, Value_span(right)),
                                      left.number + r.value), st)
      [] OTHER -> Panic(st)

value_as_callable(value, name_span, st) ==
    IF value.type = "Callable" THEN Ok(value, st)
    ELSE Err(Error_NotCallable(name_span), st)

\* Value::pretty_print: the line println! writes; todo!() for a Callable
pretty_print_unimplemented(value) == value.type = "Callable"
pretty_print(value) ==
    CASE value.type = "String" -> value.string
      [] value.type = "Number" -> NumberToText(value.number)
      [] value.type = "Boolean" ->
            IF value.boolean THEN <<"t", "r", "u", "e">> ELSE <<"f", "a", "l", "s", "e">>
      [] value.type = "Nil" -> <<"n", "i", "l">>

evaluate_literal(source, literal, st) ==
    CASE literal.literal = "String_" ->
            Ok(Value_String(literal.value.span,
                            Span_slice(Span_new(literal.value.span.start + 1,
                                                literal.value.span.end - 1), source)), st)
      [] literal.literal = "Number" ->
            LET text == Span_slice(literal.value.span, source) IN
            IF IsIntegerText(text)
            THEN Ok(Value_Number(literal.value.span, ParseDigits(text, 0)), st)
            ELSE Unmodelled(st)
      [] literal.literal = "Boolean" -> Ok(Value_Boolean(literal.span, literal.value), st)
      [] literal.literal = "Nil" -> Ok(Value_Nil(literal.span), st)

(***************************************************************************)
(* interpreter.rs: the evaluator.  The Rust functions call each other      *)
(* recursively; here every recursive call goes through the one recursive   *)
(* operator Eval, which dispatches on the name of the function called:     *)
(* rec_f(args) is the call f(args).                                        *)
(***************************************************************************)
RECURSIVE Eval(_, _)

rec_evaluate_expression(source, expression, st) ==
    Eval([fn |-> "evaluate_expression", source |-> source, expression |-> expression], st)
rec_evaluate_statement(source, statement, st) ==
    Eval([fn |-> "evaluate_statement", source |-> source, statement |-> statement], st)
rec_evaluate_declaration(source, declaration, st) ==
    Eval([fn |-> "evaluate_declaration", source |-> source, declaration |-> declaration], st)
rec_evaluate_declarations_from(source, declarations, i, st) ==
    Eval([fn |-> "evaluate_declarations_from", source |-> source,
          declarations |-> declarations, i |-> i], st)
rec_while_loop(source, condition, body, st) ==
    Eval([fn |-> "while_loop", source |-> source, condition |-> condition,
          body |-> body], st)
rec_evaluate_arguments(source, arguments, i, argument_values, st) ==
    Eval([fn |-> "evaluate_arguments", source |-> source, arguments |-> arguments,
          i |-> i, argument_values |-> argument_values], st)

RECURSIVE define_parameters(_, _, _, _)
\* for (name, argument) in parameters.iter().zip(argument_values.iter())
define_parameters(st, parameters, argument_values, i) ==
    IF i > Min(Len(parameters), Len(argument_values)) THEN st
    ELSE define_parameters(Define(st, parameters[i], argument_values[i]),
                           parameters, argument_values, i + 1)

\* faulty variant: only too few arguments are refused
arity_mismatch_fewer(callee, arguments) == Len(callee.parameters) > Len(arguments)

\* callee.parameters.len() != arguments.len()
arity_mismatch(callee, arguments) == Len(callee.parameters) # Len(arguments)

\* faulty variant: the Return signal is passed on to the caller
call_result_propagates(r) ==
    CASE r.kind = "Ok" -> Ok(Value_Nil(Span_new(0, 0)), Pop(r.st))
      [] r.kind = "Return" -> Return(r.value, Pop(r.st))
      [] r.kind = "Err" -> Err(r.error, Pop(r.st))
      [] OTHER -> r

\* the match on the body's result, after environment_stack.pop()
call_result(r) ==
    CASE r.kind = "Ok" -> Ok(Value_Nil(Span_new(0, 0)), Pop(r.st))
      [] r.kind = "Return" -> Ok(r.value, Pop(r.st))
      [] r.kind = "Err" -> Err(r.error, Pop(r.st))
      [] OTHER -> r

\* faulty variant: the scope is popped only when the block completes normally
block_exit_on_ok(r) ==
    IF r.kind = "Ok" THEN [r EXCEPT !.st = Pop(@)] ELSE r

\* the Block arm pops before it looks at the result; a panic unwinds past the pop
block_exit(r) ==
    IF r.kind \in {"Ok", "Err", "Return"} THEN [r EXCEPT !.st = Pop(@)] ELSE r

\* left, as_number(left), right, as_number(right): the operand pattern of
\* every arm but Plus
number_operands(source, left, right, st) ==
    LET l == rec_evaluate_expression(source, left, st) IN
    IF l.kind # "Ok" THEN l ELSE
    LET ln == as_number(l.value, l.st) IN
    IF ln.kind # "Ok" THEN ln ELSE
    LET r == rec_evaluate_expression(source, right, l.st) IN
    IF r.kind # "Ok" THEN r ELSE
    LET rn == as_number(r.value, r.st) IN
    IF rn.kind # "Ok" THEN rn
    ELSE Ok([left |-> ln.value, right |-> rn.value], r.st)

evaluate_binary_expression(source, left, right, operator, st) ==
    IF Expression_span_unimplemented(left) \/ Expression_span_unimplemented(right)
    THEN Panic(st) ELSE
    LET span == Span_combine(Span_combine(Expression_span(left), operator.span),
                             Expression_span(right))
        t == operator.type_
    IN
    IF t = "Plus" THEN
        LET l == rec_evaluate_expression(source, left, st) IN
        IF l.kind # "Ok" THEN l ELSE
        LET r == rec_evaluate_expression(source, right, l.st) IN
        IF r.kind # "Ok" THEN r ELSE plus_or_concat(l.value, r.value, r.st)
    ELSE IF t \in {"Minus", "Slash", "Star", "BangEqual", "EqualEqual", "Greater",
                   "GreaterEqual", "Less", "LessEqual"} THEN
        LET n == number_operands(source, left, right, st) IN
        IF n.kind # "Ok" THEN n ELSE
        LET a == n.value.left
            b == n.value.right
        IN
        CASE t = "Minus" -> Ok(Value_Number(span, a - b), n.st)
          [] t = "Slash" ->
                IF F64DivExact(a, b) THEN Ok(Value_Number(span, F64Div(a, b)), n.st)
                ELSE Unmodelled(n.st)
          [] t = "Star" -> Ok(Value_Number(span, a * b), n.st)
          [] t = "BangEqual" -> Ok(Value_Boolean(span, a # b), n.st)
          [] t = "EqualEqual" -> Ok(Value_Boolean(span, a = b), n.st)
          [] t = "Greater" -> Ok(Value_Boolean(span, a > b), n.st)
          [] t = "GreaterEqual" -> Ok(Value_Boolean(span, a >= b), n.st)
          [] t = "Less" -> Ok(Value_Boolean(span, a < b), n.st)
          [] t = "LessEqual" -> Ok(Value_Boolean(span, a <= b), n.st)
    ELSE Panic(st)

evaluate_unary_expression(source, operator, right, st) ==
    LET r == rec_evaluate_expression(source, right, st) IN
    IF r.kind # "Ok" THEN r
    ELSE CASE operator.type_ = "Minus" ->
                 IF Value_span_unimplemented(r.value) THEN Panic(r.st)
                 ELSE LET n == as_number(r.value, r.st) IN
                      IF n.kind # "Ok" THEN n
                      ELSE Ok(Value_Number(Span_combine(operator.span, Value_span(r.value)),
                                           -n.value), r.st)
           [] operator.type_ = "Bang" ->
                 IF Value_span_unimplemented(r.value) THEN Panic(r.st)
                 ELSE Ok(Value_Boolean(Span_combine(operator.span, Value_span(r.value)),
                                       ~is_truthy(r.value)), r.st)
           [] OTHER -> Panic(r.st)

\* for argument in arguments { argument_values.push(evaluate_expression(..)?) }
evaluate_arguments(source, arguments, i, argument_values, st) ==
    IF i > Len(arguments) THEN Ok(argument_values, st)
    ELSE LET r == rec_evaluate_expression(source, arguments[i], st) IN
         IF r.kind # "Ok" THEN r
         ELSE rec_evaluate_arguments(source, arguments, i + 1,
                                 Append(argument_values, r.value), r.st)

\* faulty variant: an Err does not stop the list
evaluate_declarations_from_continue(source, declarations, i, st) ==
    IF i > Len(declarations) THEN Ok(NoValue, st)
    ELSE LET r == rec_evaluate_declaration(source, declarations[i], st) IN
         IF r.kind \notin {"Ok", "Err"} THEN r
         ELSE rec_evaluate_declarations_from(source, declarations, i + 1, r.st)

\* declarations.iter().try_for_each(...)?: stop at the first Err or Return
evaluate_declarations_from(source, declarations, i, st) ==
    IF i > Len(declarations) THEN Ok(NoValue, st)
    ELSE LET r == rec_evaluate_declaration(source, declarations[i], st) IN
         IF r.kind # "Ok" THEN r
         ELSE rec_evaluate_declarations_from(source, declarations, i + 1, r.st)

evaluate_declarations(source, declarations, st) ==
    rec_evaluate_declarations_from(source, declarations, 1, st)

evaluate_call(source, callee, closing_paren, arguments, st) ==
    IF Expression_span_unimplemented(callee) THEN Panic(st) ELSE
    LET callee_span == Expression_span(callee)
        c == rec_evaluate_expression(source, callee, st)
    IN
    IF c.kind # "Ok" THEN c ELSE
    LET f == value_as_callable(c.value, callee_span, c.st) IN
    IF f.kind # "Ok" THEN f
    ELSE IF arity_mismatch(f.value, arguments)
    THEN Err(Error_Arity(Len(f.value.parameters), Len(arguments),
                         Span_combine(callee_span, closing_paren.span)), c.st)
    ELSE LET a == rec_evaluate_arguments(source, arguments, 1, <<>>, c.st) IN
         IF a.kind # "Ok" THEN a
         ELSE call_result(
                 evaluate_declarations(source, f.value.body,
                     define_parameters(Push(a.st), f.value.parameters, a.value, 1)))

\* Statement::While: the condition, then body and condition again while truthy
while_loop(source, condition, body, st) ==
    LET c == rec_evaluate_expression(source, condition, st) IN
    IF c.kind # "Ok" THEN c
    ELSE IF ~is_truthy(c.value) THEN Ok(NoValue, c.st)
    ELSE LET b == rec_evaluate_statement(source, body, c.st) IN
         IF b.kind # "Ok" THEN b
         ELSE rec_while_loop(source, condition, body, b.st)

evaluate_statement(source, statement, st) ==
    CASE statement.stmt = "Print" ->
            LET r == rec_evaluate_expression(source, statement.expression, st) IN
            IF r.kind # "Ok" THEN r
            ELSE IF pretty_print_unimplemented(r.value) THEN Panic(r.st)
            ELSE Ok(NoValue, [r.st EXCEPT !.out = Append(@, pretty_print(r.value))])
      [] statement.stmt = "Expression" ->
            LET r == rec_evaluate_expression(source, statement.expression, st) IN
            IF r.kind # "Ok" THEN r ELSE Ok(NoValue, r.st)
      [] statement.stmt = "Block" ->
            block_exit(evaluate_declarations(source, statement.declarations, Push(st)))
      [] statement.stmt = "If" ->
            LET c == rec_evaluate_expression(source, statement.condition, st) IN
            IF c.kind # "Ok" THEN c
            ELSE IF is_truthy(c.value)
                 THEN rec_evaluate_statement(source, statement.then_branch, c.st)
            ELSE IF IsSomeStatement(statement.else_branch)
                 THEN rec_evaluate_statement(source, statement.else_branch, c.st)
            ELSE Ok(NoValue, c.st)
      [] statement.stmt = "While" ->
            rec_while_loop(source, statement.condition, statement.body, st)
      [] statement.stmt = "Return" ->
            LET r == rec_evaluate_expression(source, statement.value, st) IN
            IF r.kind # "Ok" THEN r ELSE Return(r.value, r.st)

evaluate_declaration(source, declaration, st) ==
    IF st.fuel = 0 THEN Halt(st) ELSE
    LET s == Tick(st) IN
    CASE declaration.decl = "Function" ->
            Ok(NoValue,
               Define(s, Span_slice(declaration.name.span, source),
                      Value_Callable(declaration.name.span,
                                     [i \in 1..Len(declaration.parameters) |->
                                         Span_slice(declaration.parameters[i].span, source)],
                                     declaration.body)))
      [] declaration.decl = "Variable" ->
            IF IsSomeExpression(declaration.initialiser)
            THEN LET r == rec_evaluate_expression(source, declaration.initialiser, s) IN
                 IF r.kind # "Ok" THEN r
                 ELSE Ok(NoValue,
                         Define(r.st, Span_slice(declaration.name.span, source), r.value))
            ELSE Ok(NoValue,
                    Define(s, Span_slice(declaration.name.span, source),
                           Value_Nil(declaration.name.span)))
      [] declaration.decl = "Statement" ->
            rec_evaluate_statement(source, declaration.statement, s)

\* faulty variant: the right operand is always evaluated
short_circuits_never(operator, left) == FALSE

\* the two early returns of the Logical arm: the left value is the result
short_circuits(operator, left) ==
    \/ operator.type_ = "Or" /\ is_truthy(left)
    \/ operator.type_ = "And" /\ ~is_truthy(left)

evaluate_expression(source, expression, st) ==
    IF st.fuel = 0 THEN Halt(st) ELSE
    LET s == Tick(st) IN
    CASE expression.expr = "Assignment" ->
            LET r == rec_evaluate_expression(source, expression.value, s) IN
            IF r.kind # "Ok" THEN r
            ELSE LET did_assign ==
                         Interpreter_assign(r.st.environment_stack,
                                            Span_slice(expression.name.span, source),
                                            r.value) IN
                 IF did_assign.ok
                 THEN Ok(r.value, [r.st EXCEPT !.environment_stack = did_assign.stack])
                 ELSE Err(Error_VariableDoesntExist(expression.name), r.st)
      [] expression.expr = "Binary" ->
            evaluate_binary_expression(source, expression.left, expression.right,
                                       expression.operator, s)
      [] expression.expr = "Call" ->
            evaluate_call(source, expression.callee, expression.closing_paren,
                          expression.arguments, s)
      [] expression.expr = "Grouping" ->
            rec_evaluate_expression(source, expression.expression, s)
      [] expression.expr = "Literal" -> evaluate_literal(source, expression, s)
      [] expression.expr = "Logical" ->
            LET l == rec_evaluate_expression(source, expression.left, s) IN
            IF l.kind # "Ok" THEN l
            ELSE IF short_circuits(expression.operator, l.value) THEN l
            ELSE rec_evaluate_expression(source, expression.right, l.st)
      [] expression.expr = "Unary" ->
            evaluate_unary_expression(source, expression.operator, expression.right, s)
      [] expression.expr = "Variable" ->
            LET v == Interpreter_get(s.environment_stack, source, expression.name) IN
            IF v.type # "None" THEN Ok(v, s)
            ELSE Err(Error_VariableDoesntExist(expression.name), s)
      [] OTHER -> Panic(s)

Eval(call, st) ==
    CASE call.fn = "evaluate_expression" ->
            evaluate_expression(call.source, call.expression, st)
      [] call.fn = "evaluate_statement" ->
            evaluate_statement(call.source, call.statement, st)
      [] call.fn = "evaluate_declaration" ->
            evaluate_declaration(call.source, call.declaration, st)
      [] call.fn = "evaluate_declarations_from" ->
            evaluate_declarations_from(call.source, call.declarations, call.i, st)
      [] call.fn = "while_loop" ->
            while_loop(call.source, call.condition, call.body, st)
      [] call.fn = "evaluate_arguments" ->
            evaluate_arguments(call.source, call.arguments, call.i,
                               call.argument_values, st)

\* faulty variant: a Return reaching the top is reported as a failure
interpret_result_surfaces(r) ==
    CASE r.kind = "Ok" -> [kind |-> "Ok", error |-> NoError]
      [] r.kind = "Return" -> [kind |-> "Err", error |-> NoError]
      [] r.kind = "Err" -> [kind |-> "Err", error |-> r.error]
      [] r.kind = "Halt" -> [kind |-> "Running", error |-> NoError]
      [] OTHER -> [kind |-> r.kind, error |-> NoError]

\* Interpreter::interpret: a Return reaching the top is Ok
interpret_result(r) ==
    CASE r.kind = "Ok" -> [kind |-> "Ok", error |-> NoError]
      [] r.kind = "Return" -> [kind |-> "Ok", error |-> NoError]
      [] r.kind = "Err" -> [kind |-> "Err", error |-> r.error]
      [] r.kind = "Halt" -> [kind |-> "Running", error |-> NoError]
      [] OTHER -> [kind |-> r.kind, error |-> NoError]

\* interpret(source, declarations) on the Interpreter `interpreter`, cut after
\* `fuel` AST nodes
interpret(interpreter, source, declarations, fuel) ==
    LET r == evaluate_declarations(source, declarations,
                 [environment_stack |-> interpreter.environment_stack,
                  out |-> interpreter.out, fuel |-> fuel])
    IN [environment_stack |-> r.st.environment_stack, out |-> r.st.out,
        result |-> interpret_result(r)]

(***************************************************************************)
(* lexer.rs.  A source text is its sequence of UTF-8 bytes: an ASCII       *)
(* character is one byte, written as the character itself; the bytes of a  *)
(* longer character are written in hexadecimal ("C3", "A9").  str::chars   *)
(* decodes them; a char is the character itself or, beyond ASCII, its      *)
(* code point ("U+00E9").  The Lexer counts chars; Span::slice counts      *)
(* bytes.                                                                  *)
(***************************************************************************)
ContinuationBytes == {"A9", "82", "AC"}
NoChar == "None"

\* the number of bytes of the character that starts with this byte
Utf8Width(byte) ==
    IF byte = "C3" THEN 2 ELSE IF byte = "E2" THEN 3 ELSE 1

RECURSIVE chars_skip(_, _, _)
\* the byte offset `n` chars after byte offset i, or the length of the source;
\* the chars still to skip are halved
chars_skip(source, i, n) ==
    IF n = 0 \/ i >= Len(source) THEN Min(i, Len(source))
    ELSE IF n = 1 THEN Min(i + Utf8Width(source[i + 1]), Len(source))
    ELSE CHOOSE skipped \in {
             chars_skip(source, half, n - (n \div 2)) :
             half \in {chars_skip(source, i, n \div 2)}} : TRUE

\* source.chars().nth(n): the char whose encoding starts n chars in
chars_nth(source, n) ==
    CHOOSE char \in {
        IF i >= Len(source) THEN NoChar
        ELSE LET bytes == SubSeq(source, i + 1, i + Utf8Width(source[i + 1])) IN
             CASE bytes = <<"C3", "A9">> -> "U+00E9"
               [] bytes = <<"E2", "82", "AC">> -> "U+20AC"
               [] OTHER -> source[i + 1] :
        i \in {chars_skip(source, 0, n)}} : TRUE

\* str::is_char_boundary
is_char_boundary(source, index) ==
    \/ index = 0
    \/ index = Len(source)
    \/ index < Len(source) /\ source[index + 1] \notin ContinuationBytes

\* &source[start..end] panics off a char boundary and past the end
Span_slice_panics(self, source) ==
    \/ self.start > self.end
    \/ self.end > Len(source)
    \/ ~is_char_boundary(source, self.start)
    \/ ~is_char_boundary(source, self.end)

AsciiLetters ==
    {"a", "b", "c", "d", "e", "f", "g", "h", "i", "j", "k", "l", "m", "n", "o", "p",
     "q", "r", "s", "t", "u", "v", "w", "x", "y", "z", "A", "B", "C", "D", "E", "F",
     "G", "H", "I", "J", "K", "L", "M", "N", "O", "P", "Q", "R", "S", "T", "U", "V",
     "W", "X", "Y", "Z"}

\* TokenType::from_character
TokenType_from_character(character) ==
    CASE character = "(" -> "LeftParen"
      [] character = ")" -> "RightParen"
      [] character = "{" -> "LeftBrace"
      [] character = "}" -> "RightBrace"
      [] character = "," -> "Comma"
      [] character = "." -> "Dot"
      [] character = "-" -> "Minus"
      [] character = "+" -> "Plus"
      [] character = ";" -> "Semicolon"
      [] character = "*" -> "Star"
      [] OTHER -> "None"

\* the keywords map of lex_identifier_or_keyword
keywords(text) ==
    CASE text = <<"a", "n", "d">> -> "And"
      [] text = <<"c", "l", "a", "s", "s">> -> "Class"
      [] text = <<"e", "l", "s", "e">> -> "Else"
      [] text = <<"f", "a", "l", "s", "e">> -> "False"
      [] text = <<"f", "o", "r">> -> "For"
      [] text = <<"f", "u", "n">> -> "Fun"
      [] text = <<"i", "f">> -> "If"
      [] text = <<"n", "i", "l">> -> "Nil"
      [] text = <<"o", "r">> -> "Or"
      [] text = <<"p", "r", "i", "n", "t">> -> "Print"
      [] text = <<"r", "e", "t", "u", "r", "n">> -> "Return"
      [] text = <<"s", "u", "p", "e", "r">> -> "Super"
      [] text = <<"t", "h", "i", "s">> -> "This"
      [] text = <<"t", "r", "u", "e">> -> "True"
      [] text = <<"v", "a", "r">> -> "Var"
      [] text = <<"w", "h", "i", "l", "e">> -> "While"
      [] OTHER -> "None"

\* the Lexer that Lexer::lex constructs, with what its last call of next returned
Lexer_new(input) ==
    [source |-> input, current_position |-> 0, errors |-> <<>>, tokens |-> <<>>,
     next_result |-> "NotDone"]

current_character(self) == chars_nth(self.source, self.current_position)

advance(self) == [self EXCEPT !.current_position = @ + 1]
push_token(self, token) == [self EXCEPT !.tokens = Append(@, token)]
push_error(self, error) == [self EXCEPT !.errors = Append(@, error)]

absorb_single_character_token(self, token_type) ==
    advance(push_token(self, Token_new(self.current_position,
                                       self.current_position + 1, token_type)))

\* -> [matched, lexer]
absorb_if_match(self, character_to_match) ==
    IF current_character(self) = character_to_match
    THEN [matched |-> TRUE, lexer |-> advance(self)]
    ELSE [matched |-> FALSE, lexer |-> self]

\* faulty variant: a two-character token spans only its second character
absorb_one_or_two_short(self, two_characters, one_character) ==
    LET m == absorb_if_match(advance(self), "=") IN
    push_token(m.lexer,
               Token_new(m.lexer.current_position - 1, m.lexer.current_position,
                         IF m.matched THEN two_characters ELSE one_character))

\* the arms of next for ! = > <: one character, or two when = follows
absorb_one_or_two(self, two_characters, one_character) ==
    LET m == absorb_if_match(advance(self), "=") IN
    push_token(m.lexer,
               IF m.matched
               THEN Token_new(m.lexer.current_position - 2, m.lexer.current_position,
                              two_characters)
               ELSE Token_new(m.lexer.current_position - 1, m.lexer.current_position,
                              one_character))

RECURSIVE absorb_while(_, _)
\* the while loops of absorb_until_newline ("line"), lex_identifier_or_keyword
\* ("identifier"), lex_number ("number") and lex_string ("string"): the
\* position moves on while there is a character and it belongs
absorb_while(self, loop) ==
    LET character == current_character(self) IN
    IF /\ character # NoChar
       /\ CASE loop = "line" -> character # "\n"
            [] loop = "identifier" -> character \in AsciiLetters \/ IsDigit(character)
            [] loop = "number" -> IsDigit(character)
            [] loop = "string" -> character # "\""
    THEN absorb_while(advance(self), loop)
    ELSE self

\* -> [panicked, lexer]: the slice that looks the word up counts bytes
lex_identifier_or_keyword(self) ==
    CHOOSE lexed \in {
        LET span == Span_new(self.current_position, after.current_position) IN
        IF Span_slice_panics(span, self.source)
        THEN [panicked |-> TRUE, lexer |-> after]
        ELSE LET keyword == keywords(Span_slice(span, self.source)) IN
             [panicked |-> FALSE,
              lexer |-> push_token(after,
                                   Token_new(span.start, span.end,
                                             IF keyword # "None" THEN keyword
                                             ELSE "Identifier"))] :
        after \in {absorb_while(self, "identifier")}} : TRUE

\* the digits, then a fraction when a digit follows the point
\* faulty variant: the dot is taken into the number whatever follows it
lex_number_any_dot(self) ==
    CHOOSE lexed \in {
        CHOOSE with_fraction \in {
            push_token(after, Token_new(self.current_position, after.current_position,
                                        "Number")) :
            after \in {IF current_character(whole) = "."
                       THEN absorb_while(advance(whole), "number")
                       ELSE whole}} : TRUE :
        whole \in {absorb_while(self, "number")}} : TRUE

lex_number(self) ==
    CHOOSE lexed \in {
        CHOOSE with_fraction \in {
            push_token(after, Token_new(self.current_position, after.current_position,
                                        "Number")) :
            after \in {LET next_character ==
                               chars_nth(self.source, whole.current_position + 1) IN
                       IF /\ current_character(whole) = "."
                          /\ next_character # NoChar
                          /\ IsDigit(next_character)
                       THEN absorb_while(advance(whole), "number")
                       ELSE whole}} : TRUE :
        whole \in {absorb_while(self, "number")}} : TRUE

\* faulty variant: the error is recorded where the input ended
lex_string_at_end(self) ==
    CHOOSE lexed \in {
        IF current_character(inside) = NoChar
        THEN push_error(inside, [error |-> "UnterminatedStringLiteral",
                                 starting_at |-> inside.current_position])
        ELSE LET closed == absorb_if_match(inside, "\"").lexer IN
             push_token(closed, Token_new(self.current_position, closed.current_position,
                                          "String_")) :
        inside \in {absorb_while(absorb_if_match(self, "\"").lexer, "string")}} : TRUE

lex_string(self) ==
    CHOOSE lexed \in {
        IF current_character(inside) = NoChar
        THEN push_error(inside, [error |-> "UnterminatedStringLiteral",
                                 starting_at |-> self.current_position])
        ELSE LET closed == absorb_if_match(inside, "\"").lexer IN
             push_token(closed, Token_new(self.current_position, closed.current_position,
                                          "String_")) :
        inside \in {absorb_while(absorb_if_match(self, "\"").lexer, "string")}} : TRUE

\* faulty variant: the Eof token ends at the end of the input
eof_token_inside(self) ==
    Token_new(self.current_position - 1, self.current_position, "Eof")

\* the None arm of next
eof_token(self) == Token_new(self.current_position, self.current_position + 1, "Eof")

NextResult(next_result, l) == [result |-> next_result, lexer |-> l]

RECURSIVE Lexer_next(_)
\* Lexer::next -> [result, lexer]; a newline or an unexpected character goes
\* round the loop, every other arm returns
Lexer_next(self) ==
    LET character == current_character(self) IN
    CASE character = NoChar -> NextResult("Done", push_token(self, eof_token(self)))
      [] character = "\n" -> Lexer_next(advance(self))
      [] character = "!" -> NextResult("NotDone", absorb_one_or_two(self, "BangEqual", "Bang"))
      [] character = "=" -> NextResult("NotDone", absorb_one_or_two(self, "EqualEqual", "Equal"))
      [] character = ">" ->
            NextResult("NotDone", absorb_one_or_two(self, "GreaterEqual", "Greater"))
      [] character = "<" -> NextResult("NotDone", absorb_one_or_two(self, "LessEqual", "Less"))
      [] character = "/" ->
            LET m == absorb_if_match(advance(self), "/") IN
            IF m.matched
            THEN NextResult("NotDone", absorb_while(m.lexer, "line"))
            ELSE NextResult("NotDone",
                            push_token(m.lexer,
                                       Token_new(m.lexer.current_position - 1,
                                                 m.lexer.current_position, "Slash")))
      [] OTHER ->
            LET token_type == TokenType_from_character(character) IN
            IF token_type # "None"
            THEN NextResult("NotDone", absorb_single_character_token(self, token_type))
            ELSE IF character \in {" ", "\n", "\r", "\t"}
            THEN NextResult("NotDone", advance(self))
            ELSE IF character = "\""
            THEN NextResult("NotDone", lex_string(self))
            ELSE IF IsDigit(character)
            THEN NextResult("NotDone", lex_number(self))
            ELSE IF character \in AsciiLetters
            THEN CHOOSE lexed \in {
                     NextResult(IF r.panicked THEN "Panic" ELSE "NotDone", r.lexer) :
                     r \in {lex_identifier_or_keyword(self)}} : TRUE
            ELSE Lexer_next(advance(push_error(
                     self, [error |-> "UnexpectedToken", at |-> self.current_position])))

(***************************************************************************)
(* parser.rs.  `self` is the Parser (current_index, errors); a parse       *)
(* function returns [opt, node, self]: Some(node), None, or the unwinding  *)
(* of a panic, with the Parser as the call left it.                        *)
(***************************************************************************)
MaxArguments == 255

SomeNode(node, self) == [opt |-> "Some", node |-> node, self |-> self]
NoNode(self) == [opt |-> "None", node |-> NoneNode, self |-> self]
Unwound(self) == [opt |-> "Panic", node |-> NoneNode, self |-> self]

NoToken == [type_ |-> "None", span |-> Span_new(0, 0)]

\* tokens.get(self.current_index).cloned()
current_token(self, tokens) ==
    IF self.current_index < Len(tokens) THEN tokens[self.current_index + 1] ELSE NoToken

\* self.errors.push(error)
Parser_error(self, error) == [self EXCEPT !.errors = Append(@, error)]

Error_UnexpectedToken(expected_token_type, token) ==
    [error |-> "UnexpectedToken", expected_token_type |-> expected_token_type,
     unexpected_token_type |-> token.type_, span |-> token.span]

\* faulty variant: a token of another type is stepped over when it is reported
consume_token_of_type_skips(self, tokens, token_type) ==
    LET token == current_token(self, tokens) IN
    IF token = NoToken THEN NoNode(Parser_error(self, [error |-> "UnexpectedEof"]))
    ELSE IF token.type_ # token_type
    THEN NoNode(Parser_error([self EXCEPT !.current_index = @ + 1],
                             Error_UnexpectedToken(token_type, token)))
    ELSE SomeNode(token, [self EXCEPT !.current_index = @ + 1])

consume_token_of_type(self, tokens, token_type) ==
    LET token == current_token(self, tokens) IN
    IF token = NoToken THEN NoNode(Parser_error(self, [error |-> "UnexpectedEof"]))
    ELSE IF token.type_ # token_type
    THEN NoNode(Parser_error(self, Error_UnexpectedToken(token_type, token)))
    ELSE SomeNode(token, [self EXCEPT !.current_index = @ + 1])

\* -> [matched, self]
consume_token_if_in_vec(self, tokens, token_types) ==
    IF current_token(self, tokens).type_ \in token_types
    THEN [matched |-> TRUE, self |-> [self EXCEPT !.current_index = @ + 1]]
    ELSE [matched |-> FALSE, self |-> self]

\* The parse functions follow, each after the ones it calls; the three that
\* are called by functions they call themselves (parse_expression,
\* parse_statement and parse_declaration) are called through Parse there.
\* What a parse function returns is named by
\*     CHOOSE parsed \in {e : x \in {parse_...(...)}} : TRUE
\* which is e with x the value returned (`let x = self.parse_...();`).
RECURSIVE Parse(_, _, _)

\* the last arm unwraps the current token
parse_primary(self, tokens) ==
    LET token == current_token(self, tokens)
        consumed == [self EXCEPT !.current_index = @ + 1] IN
    CASE token.type_ = "False" -> SomeNode(LiteralBoolean(token.span, FALSE), consumed)
      [] token.type_ = "True" -> SomeNode(LiteralBoolean(token.span, TRUE), consumed)
      [] token.type_ = "Nil" -> SomeNode(LiteralNil(token.span), consumed)
      [] token.type_ = "Number" -> SomeNode(LiteralNumber(token), consumed)
      [] token.type_ = "String_" -> SomeNode(LiteralString(token), consumed)
      [] token.type_ = "Identifier" -> SomeNode(VariableExpression(token), consumed)
      [] token.type_ = "LeftParen" ->
            CHOOSE parsed \in {
                IF expression.opt # "Some" THEN expression
                ELSE LET closing == current_token(expression.self, tokens) IN
                     IF closing = NoToken THEN NoNode(expression.self)
                     ELSE IF closing.type_ # "RightParen"
                     THEN NoNode(Parser_error(expression.self,
                                              Error_UnexpectedToken("RightParen", closing)))
                     ELSE SomeNode(GroupingExpression(expression.node),
                                   [expression.self EXCEPT !.current_index = @ + 1]) :
                expression \in {Parse("parse_expression", tokens, consumed)}} : TRUE
      [] OTHER ->
            IF token = NoToken THEN Unwound(self)
            ELSE NoNode(Parser_error(self, Error_UnexpectedToken("None", token)))

\* one turn of the loop that collects the arguments: the count is checked
\* after the argument is pushed, and the loop goes on;
\* state = [status, arguments, self]
parse_argument(state, tokens, callee) ==
    CHOOSE parsed \in {
        IF argument.opt # "Some"
        THEN [state EXCEPT !.status = argument.opt, !.self = argument.self]
        ELSE
        LET arguments == Append(state.arguments, argument.node) IN
        IF Len(arguments) >= MaxArguments /\ Expression_span_unimplemented(callee)
        THEN [state EXCEPT !.status = "Panic", !.self = argument.self]
        ELSE
        LET counted == IF Len(arguments) >= MaxArguments
                       THEN Parser_error(argument.self,
                                         [error |-> "TwoManyArguments",
                                          callee_span |-> Expression_span(callee)])
                       ELSE argument.self
            comma == consume_token_if_in_vec(counted, tokens, {"Comma"}) IN
        [status |-> IF comma.matched THEN "Loop" ELSE "Break",
         arguments |-> arguments, self |-> comma.self] :
        argument \in {Parse("parse_expression", tokens, state.self)}} : TRUE

RECURSIVE parse_arguments(_, _, _, _)
\* at most `turns` turns of that loop, halving the turns still to make
parse_arguments(state, tokens, callee, turns) ==
    IF state.status # "Loop" \/ turns = 0 THEN state
    ELSE IF turns = 1 THEN parse_argument(state, tokens, callee)
    ELSE CHOOSE parsed \in {
             parse_arguments(half, tokens, callee, turns - (turns \div 2)) :
             half \in {parse_arguments(state, tokens, callee, turns \div 2)}} : TRUE

parse_call_arguments(self, tokens, callee) ==
    IF current_token(self, tokens) = NoToken THEN NoNode(self)
    ELSE
    CHOOSE parsed \in {
        IF loop.status = "None" THEN NoNode(loop.self)
        ELSE IF loop.status = "Panic" THEN Unwound(loop.self)
        ELSE
        LET closing_paren == consume_token_of_type(loop.self, tokens, "RightParen") IN
        IF closing_paren.opt # "Some" THEN closing_paren
        ELSE SomeNode(CallExpression(callee, closing_paren.node, loop.arguments),
                      closing_paren.self) :
        loop \in {IF current_token(self, tokens).type_ # "RightParen"
                  THEN parse_arguments([status |-> "Loop", arguments |-> <<>>,
                                        self |-> self],
                                       tokens, callee, Len(tokens))
                  ELSE [status |-> "Loop", arguments |-> <<>>, self |-> self]}} : TRUE

RECURSIVE parse_call(_, _, _)
\* parse_call with the callee parsed so far (NoneNode before parse_primary)
parse_call(self, tokens, expression) ==
    IF expression = NoneNode
    THEN CHOOSE parsed \in {
             IF primary.opt # "Some" THEN primary
             ELSE parse_call(primary.self, tokens, primary.node) :
             primary \in {parse_primary(self, tokens)}} : TRUE
    ELSE LET left_paren == consume_token_if_in_vec(self, tokens, {"LeftParen"}) IN
         IF ~left_paren.matched THEN SomeNode(expression, self)
         ELSE CHOOSE parsed \in {
                  IF call.opt # "Some" THEN call
                  ELSE parse_call(call.self, tokens, call.node) :
                  call \in {parse_call_arguments(left_paren.self, tokens, expression)}} : TRUE

RECURSIVE parse_unary_plus(_, _)
\* faulty variant: + is taken as a prefix operator too
parse_unary_plus(self, tokens) ==
    LET operator == consume_token_if_in_vec(self, tokens, {"Bang", "Minus", "Plus"}) IN
    IF ~operator.matched THEN parse_call(self, tokens, NoneNode)
    ELSE CHOOSE parsed \in {
             IF right.opt # "Some" THEN right
             ELSE SomeNode(UnaryExpression(tokens[operator.self.current_index], right.node),
                           right.self) :
             right \in {parse_unary_plus(operator.self, tokens)}} : TRUE

RECURSIVE parse_unary(_, _)
parse_unary(self, tokens) ==
    LET operator == consume_token_if_in_vec(self, tokens, {"Bang", "Minus"}) IN
    IF ~operator.matched THEN parse_call(self, tokens, NoneNode)
    ELSE CHOOSE parsed \in {
             IF right.opt # "Some" THEN right
             ELSE SomeNode(UnaryExpression(tokens[operator.self.current_index], right.node),
                           right.self) :
             right \in {parse_unary(operator.self, tokens)}} : TRUE

\* faulty variant: * and / are taken at the level of + and -
binary_level_flat(level) ==
    CASE level = "parse_or" -> [operand |-> "parse_and", operators |-> {"Or"}]
      [] level = "parse_and" -> [operand |-> "parse_equality", operators |-> {"And"}]
      [] level = "parse_equality" ->
            [operand |-> "parse_comparison", operators |-> {"BangEqual", "EqualEqual"}]
      [] level = "parse_comparison" ->
            [operand |-> "parse_term",
             operators |-> {"Greater", "GreaterEqual", "Less", "LessEqual"}]
      [] level = "parse_term" ->
            [operand |-> "parse_unary", operators |-> {"Minus", "Plus", "Slash", "Star"}]
      [] level = "parse_factor" -> [operand |-> "parse_unary", operators |-> {"Slash", "Star"}]

\* parse_or, parse_and, parse_equality, parse_comparison, parse_term and
\* parse_factor: the function that parses an operand, and the operators
\* the while loop consumes
binary_level(level) ==
    CASE level = "parse_or" -> [operand |-> "parse_and", operators |-> {"Or"}]
      [] level = "parse_and" -> [operand |-> "parse_equality", operators |-> {"And"}]
      [] level = "parse_equality" ->
            [operand |-> "parse_comparison", operators |-> {"BangEqual", "EqualEqual"}]
      [] level = "parse_comparison" ->
            [operand |-> "parse_term",
             operators |-> {"Greater", "GreaterEqual", "Less", "LessEqual"}]
      [] level = "parse_term" -> [operand |-> "parse_factor", operators |-> {"Minus", "Plus"}]
      [] level = "parse_factor" -> [operand |-> "parse_unary", operators |-> {"Slash", "Star"}]

RECURSIVE parse_binary(_, _, _, _)
\* faulty variant: the right operand takes the rest of the level
parse_binary_right(self, tokens, level, expression) ==
    IF level = "parse_unary" THEN parse_unary(self, tokens)
    ELSE IF expression = NoneNode
    THEN CHOOSE parsed \in {
             IF first.opt # "Some" THEN first
             ELSE parse_binary(first.self, tokens, level, first.node) :
             first \in {parse_binary(self, tokens, binary_level(level).operand,
                                     NoneNode)}} : TRUE
    ELSE LET operator == consume_token_if_in_vec(self, tokens,
                                                 binary_level(level).operators) IN
         IF ~operator.matched THEN SomeNode(expression, self)
         ELSE CHOOSE parsed \in {
                  IF right.opt # "Some" THEN right
                  ELSE SomeNode([expr |-> IF level \in {"parse_or", "parse_and"}
                                          THEN "Logical" ELSE "Binary",
                                 left |-> expression, right |-> right.node,
                                 operator |-> tokens[operator.self.current_index]],
                                right.self) :
                  right \in {parse_binary(operator.self, tokens, level, NoneNode)}} : TRUE

\* the body shared by the six functions: a first operand (`expression` is
\* NoneNode before it), then the while loop, in which what is parsed so far
\* becomes the left operand of the next operator; Expression::Logical for
\* or and and, binary_expression for the rest.  The operand of parse_factor
\* is parsed by parse_unary.
parse_binary(self, tokens, level, expression) ==
    IF level = "parse_unary" THEN parse_unary(self, tokens)
    ELSE IF expression = NoneNode
    THEN CHOOSE parsed \in {
             IF first.opt # "Some" THEN first
             ELSE parse_binary(first.self, tokens, level, first.node) :
             first \in {parse_binary(self, tokens, binary_level(level).operand,
                                     NoneNode)}} : TRUE
    ELSE LET operator == consume_token_if_in_vec(self, tokens,
                                                 binary_level(level).operators) IN
         IF ~operator.matched THEN SomeNode(expression, self)
         ELSE CHOOSE parsed \in {
                  IF right.opt # "Some" THEN right
                  ELSE parse_binary(right.self, tokens, level,
                                    [expr |-> IF level \in {"parse_or", "parse_and"}
                                              THEN "Logical" ELSE "Binary",
                                     left |-> expression, right |-> right.node,
                                     operator |-> tokens[operator.self.current_index]]) :
                  right \in {parse_binary(operator.self, tokens,
                                          binary_level(level).operand, NoneNode)}} : TRUE

RECURSIVE parse_assignment(_, _)
\* parse_expression is parse_assignment.  The value is parsed by
\* parse_assignment itself; a target that is not a Variable is reported by
\* its span and handed back
parse_assignment(self, tokens) ==
    CHOOSE parsed \in {
        IF expression.opt # "Some" THEN expression
        ELSE
        LET equal == consume_token_if_in_vec(expression.self, tokens, {"Equal"}) IN
        IF ~equal.matched THEN expression
        ELSE
        CHOOSE assigned \in {
            IF value.opt # "Some" THEN value
            ELSE IF expression.node.expr = "Variable"
            THEN SomeNode(AssignmentExpression(expression.node.name, value.node),
                          value.self)
            ELSE IF Expression_span_unimplemented(expression.node)
            THEN Unwound(value.self)
            ELSE SomeNode(expression.node,
                          Parser_error(value.self,
                                       [error |-> "InvalidAssignmentTarget",
                                        target_span |->
                                            Expression_span(expression.node)])) :
            value \in {parse_assignment(equal.self, tokens)}} : TRUE :
        expression \in {parse_binary(self, tokens, "parse_or", NoneNode)}} : TRUE

\* parse_print_statement and parse_expression_statement
parse_semicolon_statement(self, tokens, print) ==
    CHOOSE parsed \in {
        IF expression.opt # "Some" THEN expression
        ELSE
        LET semicolon == consume_token_of_type(expression.self, tokens, "Semicolon") IN
        IF semicolon.opt # "Some" THEN semicolon
        ELSE SomeNode(IF print THEN PrintStatement(expression.node)
                      ELSE ExpressionStatement(expression.node), semicolon.self) :
        expression \in {parse_assignment(self, tokens)}} : TRUE

\* a failed initialiser is not propagated: the declaration goes on to its
\* semicolon without one
parse_variable_declaration(self, tokens) ==
    LET name == consume_token_of_type(self, tokens, "Identifier") IN
    IF name.opt # "Some" THEN name
    ELSE
    LET equal == consume_token_if_in_vec(name.self, tokens, {"Equal"}) IN
    CHOOSE parsed \in {
        IF initialiser.opt = "Panic" THEN initialiser
        ELSE
        LET semicolon == consume_token_of_type(initialiser.self, tokens, "Semicolon") IN
        IF semicolon.opt # "Some" THEN semicolon
        ELSE SomeNode(VariableDeclaration(name.node, initialiser.node), semicolon.self) :
        initialiser \in {IF equal.matched THEN parse_assignment(equal.self, tokens)
                         ELSE NoNode(equal.self)}} : TRUE

\* faulty variant: the increment runs before the body
for_body_increment_first(initialiser, condition, increment, body) ==
    LET with_increment ==
            IF IsSomeExpression(increment)
            THEN BlockStatement(<<StatementDeclaration(ExpressionStatement(increment)),
                                  StatementDeclaration(body)>>)
            ELSE body
        with_condition ==
            IF IsSomeExpression(condition)
            THEN WhileStatement(condition, with_increment)
            ELSE with_increment IN
    IF initialiser # NoneNode
    THEN BlockStatement(<<initialiser, StatementDeclaration(with_condition)>>)
    ELSE with_condition

\* the desugaring at the end of parse_for_statement
for_body(initialiser, condition, increment, body) ==
    LET with_increment ==
            IF IsSomeExpression(increment)
            THEN BlockStatement(<<StatementDeclaration(body),
                                  StatementDeclaration(ExpressionStatement(increment))>>)
            ELSE body
        with_condition ==
            IF IsSomeExpression(condition)
            THEN WhileStatement(condition, with_increment)
            ELSE with_increment IN
    IF initialiser # NoneNode
    THEN BlockStatement(<<initialiser, StatementDeclaration(with_condition)>>)
    ELSE with_condition

\* the clauses: a failed condition or increment and a missing ; or ) are
\* recorded and not propagated
parse_for_statement(self, tokens) ==
    LET left_paren == consume_token_of_type(self, tokens, "LeftParen") IN
    IF left_paren.opt # "Some" THEN left_paren
    ELSE
    LET semicolon == consume_token_if_in_vec(left_paren.self, tokens, {"Semicolon"})
        var == consume_token_if_in_vec(left_paren.self, tokens, {"Var"}) IN
    CHOOSE parsed \in {
        IF initialiser.opt = "Panic" THEN initialiser
        ELSE IF ~semicolon.matched /\ ~var.matched /\ initialiser.opt = "None"
        THEN initialiser
        ELSE IF current_token(initialiser.self, tokens) = NoToken
        THEN NoNode(initialiser.self)
        ELSE
        CHOOSE with_condition \in {
            IF condition.opt = "Panic" THEN condition
            ELSE
            LET after_condition ==
                    consume_token_of_type(condition.self, tokens, "Semicolon").self IN
            IF current_token(after_condition, tokens) = NoToken
            THEN NoNode(after_condition)
            ELSE
            CHOOSE with_increment \in {
                IF increment.opt = "Panic" THEN increment
                ELSE
                LET after_increment ==
                        consume_token_of_type(increment.self, tokens, "RightParen").self IN
                CHOOSE with_body \in {
                    IF body.opt # "Some" THEN body
                    ELSE SomeNode(for_body(initialiser.node, condition.node,
                                           increment.node, body.node), body.self) :
                    body \in {Parse("parse_statement", tokens, after_increment)}} : TRUE :
                increment \in {IF current_token(after_condition, tokens).type_ # "RightParen"
                               THEN parse_assignment(after_condition, tokens)
                               ELSE NoNode(after_condition)}} : TRUE :
            condition \in {IF current_token(initialiser.self, tokens).type_ # "Semicolon"
                           THEN parse_assignment(initialiser.self, tokens)
                           ELSE NoNode(initialiser.self)}} : TRUE :
        initialiser \in {
            IF semicolon.matched THEN NoNode(semicolon.self)
            ELSE IF var.matched THEN parse_variable_declaration(var.self, tokens)
            ELSE CHOOSE declared \in {
                     IF statement.opt # "Some" THEN statement
                     ELSE SomeNode(StatementDeclaration(statement.node), statement.self) :
                     statement \in {parse_semicolon_statement(left_paren.self, tokens,
                                                              FALSE)}} : TRUE}} : TRUE

parse_while_statement(self, tokens) ==
    LET left_paren == consume_token_of_type(self, tokens, "LeftParen") IN
    IF left_paren.opt # "Some" THEN left_paren
    ELSE
    CHOOSE parsed \in {
        IF condition.opt # "Some" THEN condition
        ELSE
        LET right_paren == consume_token_of_type(condition.self, tokens, "RightParen") IN
        IF right_paren.opt # "Some" THEN right_paren
        ELSE
        CHOOSE with_body \in {
            IF body.opt # "Some" THEN body
            ELSE SomeNode(WhileStatement(condition.node, body.node), body.self) :
            body \in {Parse("parse_statement", tokens, right_paren.self)}} : TRUE :
        condition \in {parse_assignment(left_paren.self, tokens)}} : TRUE

\* a failed else branch leaves the statement without one
parse_if_statement(self, tokens) ==
    LET left_paren == consume_token_of_type(self, tokens, "LeftParen") IN
    IF left_paren.opt # "Some" THEN left_paren
    ELSE
    CHOOSE parsed \in {
        IF condition.opt # "Some" THEN condition
        ELSE
        LET right_paren == consume_token_of_type(condition.self, tokens, "RightParen") IN
        IF right_paren.opt # "Some" THEN right_paren
        ELSE
        CHOOSE with_then \in {
            IF then_branch.opt # "Some" THEN then_branch
            ELSE
            LET else == consume_token_if_in_vec(then_branch.self, tokens, {"Else"}) IN
            CHOOSE with_else \in {
                IF else_branch.opt = "Panic" THEN else_branch
                ELSE SomeNode(IfStatement(condition.node, then_branch.node,
                                          else_branch.node), else_branch.self) :
                else_branch \in {IF else.matched
                                 THEN Parse("parse_statement", tokens, else.self)
                                 ELSE NoNode(else.self)}} : TRUE :
            then_branch \in {Parse("parse_statement", tokens, right_paren.self)}} : TRUE :
        condition \in {parse_assignment(left_paren.self, tokens)}} : TRUE

RECURSIVE parse_block(_, _, _)
\* parse_block with the statements collected so far
parse_block(self, tokens, statements) ==
    LET token == current_token(self, tokens) IN
    IF token.type_ # "RightBrace" /\ token # NoToken
    THEN CHOOSE parsed \in {
             IF declaration.opt # "Some" THEN declaration
             ELSE parse_block(declaration.self, tokens,
                              Append(statements, declaration.node)) :
             declaration \in {Parse("parse_declaration", tokens, self)}} : TRUE
    ELSE LET right_brace == consume_token_of_type(self, tokens, "RightBrace") IN
         IF right_brace.opt # "Some" THEN right_brace
         ELSE SomeNode(statements, right_brace.self)

parse_statement(self, tokens) ==
    LET if == consume_token_if_in_vec(self, tokens, {"If"})
        while == consume_token_if_in_vec(self, tokens, {"While"})
        for == consume_token_if_in_vec(self, tokens, {"For"})
        print == consume_token_if_in_vec(self, tokens, {"Print"})
        left_brace == consume_token_if_in_vec(self, tokens, {"LeftBrace"}) IN
    IF if.matched THEN parse_if_statement(if.self, tokens)
    ELSE IF while.matched THEN parse_while_statement(while.self, tokens)
    ELSE IF for.matched THEN parse_for_statement(for.self, tokens)
    ELSE IF print.matched THEN parse_semicolon_statement(print.self, tokens, TRUE)
    ELSE IF left_brace.matched
    THEN CHOOSE parsed \in {
             IF block.opt # "Some" THEN block
             ELSE SomeNode(BlockStatement(block.node), block.self) :
             block \in {parse_block(left_brace.self, tokens, <<>>)}} : TRUE
    ELSE parse_semicolon_statement(self, tokens, FALSE)

\* one turn of the loop that collects the parameters: the count is checked
\* before the parameter is read; state = [status, parameters, self]
parse_parameter(state, tokens, name) ==
    IF Len(state.parameters) >= MaxArguments
    THEN [state EXCEPT !.status = "None",
                       !.self = Parser_error(@, [error |-> "TwoManyArguments",
                                                 callee_span |-> name.span])]
    ELSE LET parameter == consume_token_of_type(state.self, tokens, "Identifier")
             comma == consume_token_if_in_vec(parameter.self, tokens, {"Comma"}) IN
         IF parameter.opt # "Some"
         THEN [state EXCEPT !.status = "None", !.self = parameter.self]
         ELSE [status |-> IF comma.matched THEN "Loop" ELSE "Break",
               parameters |-> Append(state.parameters, parameter.node),
               self |-> comma.self]

RECURSIVE parse_parameters(_, _, _, _)
\* at most `turns` turns of that loop, halving the turns still to make
parse_parameters(state, tokens, name, turns) ==
    IF state.status # "Loop" \/ turns = 0 THEN state
    ELSE IF turns = 1 THEN parse_parameter(state, tokens, name)
    ELSE CHOOSE parsed \in {
             parse_parameters(half, tokens, name, turns - (turns \div 2)) :
             half \in {parse_parameters(state, tokens, name, turns \div 2)}} : TRUE

parse_function_declaration(self, tokens) ==
    LET name == consume_token_of_type(self, tokens, "Identifier") IN
    IF name.opt # "Some" THEN name
    ELSE
    LET left_paren == consume_token_of_type(name.self, tokens, "LeftParen") IN
    IF left_paren.opt # "Some" THEN left_paren
    ELSE IF current_token(left_paren.self, tokens) = NoToken THEN NoNode(left_paren.self)
    ELSE
    CHOOSE parsed \in {
        IF loop.status = "None" THEN NoNode(loop.self)
        ELSE
        LET right_paren == consume_token_of_type(loop.self, tokens, "RightParen") IN
        IF right_paren.opt # "Some" THEN right_paren
        ELSE
        LET left_brace == consume_token_of_type(right_paren.self, tokens, "LeftBrace") IN
        IF left_brace.opt # "Some" THEN left_brace
        ELSE
        CHOOSE with_body \in {
            IF body.opt # "Some" THEN body
            ELSE SomeNode(FunctionDeclaration(name.node, loop.parameters, body.node),
                          body.self) :
            body \in {parse_block(left_brace.self, tokens, <<>>)}} : TRUE :
        loop \in {IF current_token(left_paren.self, tokens).type_ # "RightParen"
                  THEN parse_parameters([status |-> "Loop", parameters |-> <<>>,
                                         self |-> left_paren.self],
                                        tokens, name.node, Len(tokens))
                  ELSE [status |-> "Loop", parameters |-> <<>>,
                        self |-> left_paren.self]}} : TRUE

parse_declaration(self, tokens) ==
    LET fun == consume_token_if_in_vec(self, tokens, {"Fun"})
        var == consume_token_if_in_vec(self, tokens, {"Var"}) IN
    IF fun.matched THEN parse_function_declaration(fun.self, tokens)
    ELSE IF var.matched THEN parse_variable_declaration(var.self, tokens)
    ELSE CHOOSE parsed \in {
             IF statement.opt # "Some" THEN statement
             ELSE SomeNode(StatementDeclaration(statement.node), statement.self) :
             statement \in {parse_statement(self, tokens)}} : TRUE

\* the parse functions that are called from the ones they call
Parse(fn, tokens, self) ==
    CASE fn = "parse_declaration" -> parse_declaration(self, tokens)
      [] fn = "parse_statement" -> parse_statement(self, tokens)
      [] fn = "parse_expression" -> parse_assignment(self, tokens)

\* faulty variant: the failed token is not stepped over
synchronise_in_place(self, tokens) == self

RECURSIVE synchronise_from_semicolon(_, _)
\* faulty variant: only a `;` before the cursor stops the loop
synchronise_from_semicolon(self, tokens) ==
    IF current_token(self, tokens) = NoToken THEN self
    ELSE IF tokens[self.current_index].type_ = "Semicolon" THEN self
    ELSE synchronise_from_semicolon([self EXCEPT !.current_index = @ + 1], tokens)

RECURSIVE synchronise_from(_, _)
\* the while loop of synchronise
synchronise_from(self, tokens) ==
    IF current_token(self, tokens) = NoToken THEN self
    ELSE IF tokens[self.current_index].type_ = "Semicolon" THEN self
    ELSE IF current_token(self, tokens).type_ \in
                {"Class", "Fun", "Var", "For", "If", "While", "Print", "Return"}
    THEN self
    ELSE synchronise_from([self EXCEPT !.current_index = @ + 1], tokens)

synchronise(self, tokens) ==
    synchronise_from([self EXCEPT !.current_index = @ + 1], tokens)

\* the Parser that Parser::parse constructs, with its declarations and how
\* far the while loop is
Parser_new(tokens) ==
    [tokens |-> tokens, current_index |-> 0, errors |-> <<>>, declarations |-> <<>>,
     status |-> "Running"]

\* one turn of the while loop of Parser::parse, or its end
Parser_parse(self) ==
    IF \/ current_token(self, self.tokens) = NoToken
       \/ current_token(self, self.tokens).type_ = "Eof"
    THEN [self EXCEPT !.status = "Done"]
    ELSE CHOOSE parsed \in {
             CASE declaration.opt = "Panic" -> [declaration.self EXCEPT !.status = "Panic"]
               [] declaration.opt = "None" -> synchronise(declaration.self, self.tokens)
               [] OTHER -> [declaration.self EXCEPT
                                !.declarations = Append(@, declaration.node)] :
             declaration \in {parse_declaration(self, self.tokens)}} : TRUE


\* ---- input programs ----
\* fun f() { print x; } { var x = 1; f(); }
P001 ==
    [family |-> "caller_local",
     source |->
        <<"f", "u", "n", " ", "f", "(", ")", " ", "{", " ", "p", "r", "i", "n", "t",
        " ", "x", ";", " ", "}", " ", "{", " ", "v", "a", "r", " ", "x", " ", "=", " ",
        "1", ";", " ", "f", "(", ")", ";", " ", "}">>,
     name |-> <<"x">>,
     declarations |->
        <<FunctionDeclaration(Token_new(4, 5, "Identifier"), <<>>,
        <<StatementDeclaration(PrintStatement(VariableExpression(Token_new(16, 17,
        "Identifier"))))>>),
        StatementDeclaration(BlockStatement(<<VariableDeclaration(Token_new(27, 28,
        "Identifier"), LiteralNumber(Token_new(31, 32, "Number"))),
        StatementDeclaration(ExpressionStatement(CallExpression(VariableExpression(Token_new(34,
        35, "Identifier")), Token_new(36, 37, "RightParen"), <<>>)))>>))>>]

\* fun f() { print x; } fun g() { var x = 1; f(); } g();
P002 ==
    [family |-> "caller_local",
     source |->
        <<"f", "u", "n", " ", "f", "(", ")", " ", "{", " ", "p", "r", "i", "n", "t",
        " ", "x", ";", " ", "}", " ", "f", "u", "n", " ", "g", "(", ")", " ", "{", " ",
        "v", "a", "r", " ", "x", " ", "=", " ", "1", ";", " ", "f", "(", ")", ";", " ",
        "}", " ", "g", "(", ")", ";">>,
     name |-> <<"x">>,
     declarations |->
        <<FunctionDeclaration(Token_new(4, 5, "Identifier"), <<>>,
        <<StatementDeclaration(PrintStatement(VariableExpression(Token_new(16, 17,
        "Identifier"))))>>), FunctionDeclaration(Token_new(25, 26, "Identifier"), <<>>,
        <<VariableDeclaration(Token_new(35, 36, "Identifier"),
        LiteralNumber(Token_new(39, 40, "Number"))),
        StatementDeclaration(ExpressionStatement(CallExpression(VariableExpression(Token_new(42,
        43, "Identifier")), Token_new(44, 45, "RightParen"), <<>>)))>>),
        StatementDeclaration(ExpressionStatement(CallExpression(VariableExpression(Token_new(49,
        50, "Identifier")), Token_new(51, 52, "RightParen"), <<>>)))>>]

\* var x = 1; fun f() { print x; } { var x = 2; f(); }
P003 ==
    [family |-> "caller_shadow",
     source |->
        <<"v", "a", "r", " ", "x", " ", "=", " ", "1", ";", " ", "f", "u", "n", " ",
        "f", "(", ")", " ", "{", " ", "p", "r", "i", "n", "t", " ", "x", ";", " ", "}",
        " ", "{", " ", "v", "a", "r", " ", "x", " ", "=", " ", "2", ";", " ", "f", "(",
        ")", ";", " ", "}">>,
     want_out |-> <<<<"1">>>>,
     declarations |->
        <<VariableDeclaration(Token_new(4, 5, "Identifier"), LiteralNumber(Token_new(8,
        9, "Number"))), FunctionDeclaration(Token_new(15, 16, "Identifier"), <<>>,
        <<StatementDeclaration(PrintStatement(VariableExpression(Token_new(27, 28,
        "Identifier"))))>>),
        StatementDeclaration(BlockStatement(<<VariableDeclaration(Token_new(38, 39,
        "Identifier"), LiteralNumber(Token_new(42, 43, "Number"))),
        StatementDeclaration(ExpressionStatement(CallExpression(VariableExpression(Token_new(45,
        46, "Identifier")), Token_new(47, 48, "RightParen"), <<>>)))>>))>>]

\* var x = 1; fun f() { print x; } fun g() { var x = 2; f(); } g();
P004 ==
    [family |-> "caller_shadow",
     source |->
        <<"v", "a", "r", " ", "x", " ", "=", " ", "1", ";", " ", "f", "u", "n", " ",
        "f", "(", ")", " ", "{", " ", "p", "r", "i", "n", "t", " ", "x", ";", " ", "}",
        " ", "f", "u", "n", " ", "g", "(", ")", " ", "{", " ", "v", "a", "r", " ", "x",
        " ", "=", " ", "2", ";", " ", "f", "(", ")", ";", " ", "}", " ", "g", "(", ")",
        ";">>,
     want_out |-> <<<<"1">>>>,
     declarations |->
        <<VariableDeclaration(Token_new(4, 5, "Identifier"), LiteralNumber(Token_new(8,
        9, "Number"))), FunctionDeclaration(Token_new(15, 16, "Identifier"), <<>>,
        <<StatementDeclaration(PrintStatement(VariableExpression(Token_new(27, 28,
        "Identifier"))))>>), FunctionDeclaration(Token_new(36, 37, "Identifier"), <<>>,
        <<VariableDeclaration(Token_new(46, 47, "Identifier"),
        LiteralNumber(Token_new(50, 51, "Number"))),
        StatementDeclaration(ExpressionStatement(CallExpression(VariableExpression(Token_new(53,
        54, "Identifier")), Token_new(55, 56, "RightParen"), <<>>)))>>),
        StatementDeclaration(ExpressionStatement(CallExpression(VariableExpression(Token_new(60,
        61, "Identifier")), Token_new(62, 63, "RightParen"), <<>>)))>>]

\* fun make() { var c = 0; fun inc() { c = c + 1; return c; } return inc; } var k = make(); print k(); print k();
P005 ==
    [family |-> "closure",
     source |->
        <<"f", "u", "n", " ", "m", "a", "k", "e", "(", ")", " ", "{", " ", "v", "a",
        "r", " ", "c", " ", "=", " ", "0", ";", " ", "f", "u", "n", " ", "i", "n", "c",
        "(", ")", " ", "{", " ", "c", " ", "=", " ", "c", " ", "+", " ", "1", ";", " ",
        "r", "e", "t", "u", "r", "n", " ", "c", ";", " ", "}", " ", "r", "e", "t", "u",
        "r", "n", " ", "i", "n", "c", ";", " ", "}", " ", "v", "a", "r", " ", "k", " ",
        "=", " ", "m", "a", "k", "e", "(", ")", ";", " ", "p", "r", "i", "n", "t", " ",
        "k", "(", ")", ";", " ", "p", "r", "i", "n", "t", " ", "k", "(", ")", ";">>,
     want_out |-> <<<<"1">>, <<"2">>>>,
     declarations |->
        <<FunctionDeclaration(Token_new(4, 8, "Identifier"), <<>>,
        <<VariableDeclaration(Token_new(17, 18, "Identifier"),
        LiteralNumber(Token_new(21, 22, "Number"))), FunctionDeclaration(Token_new(28,
        31, "Identifier"), <<>>,
        <<StatementDeclaration(ExpressionStatement(AssignmentExpression(Token_new(36,
        37, "Identifier"), BinaryExpression(VariableExpression(Token_new(40, 41,
        "Identifier")), LiteralNumber(Token_new(44, 45, "Number")), Token_new(42, 43,
        "Plus"))))),
        StatementDeclaration(ReturnStatement(VariableExpression(Token_new(54, 55,
        "Identifier"))))>>),
        StatementDeclaration(ReturnStatement(VariableExpression(Token_new(66, 69,
        "Identifier"))))>>), VariableDeclaration(Token_new(77, 78, "Identifier"),
        CallExpression(VariableExpression(Token_new(81, 85, "Identifier")),
        Token_new(86, 87, "RightParen"), <<>>)),
        StatementDeclaration(PrintStatement(CallExpression(VariableExpression(Token_new(95,
        96, "Identifier")), Token_new(97, 98, "RightParen"), <<>>))),
        StatementDeclaration(PrintStatement(CallExpression(VariableExpression(Token_new(106,
        107, "Identifier")), Token_new(108, 109, "RightParen"), <<>>)))>>]

\* fun make() { var c = 7; fun get() { return c; } return get; } var g = make(); print g();
P006 ==
    [family |-> "closure",
     source |->
        <<"f", "u", "n", " ", "m", "a", "k", "e", "(", ")", " ", "{", " ", "v", "a",
        "r", " ", "c", " ", "=", " ", "7", ";", " ", "f", "u", "n", " ", "g", "e", "t",
        "(", ")", " ", "{", " ", "r", "e", "t", "u", "r", "n", " ", "c", ";", " ", "}",
        " ", "r", "e", "t", "u", "r", "n", " ", "g", "e", "t", ";", " ", "}", " ", "v",
        "a", "r", " ", "g", " ", "=", " ", "m", "a", "k", "e", "(", ")", ";", " ", "p",
        "r", "i", "n", "t", " ", "g", "(", ")", ";">>,
     want_out |-> <<<<"7">>>>,
     declarations |->
        <<FunctionDeclaration(Token_new(4, 8, "Identifier"), <<>>,
        <<VariableDeclaration(Token_new(17, 18, "Identifier"),
        LiteralNumber(Token_new(21, 22, "Number"))), FunctionDeclaration(Token_new(28,
        31, "Identifier"), <<>>,
        <<StatementDeclaration(ReturnStatement(VariableExpression(Token_new(43, 44,
        "Identifier"))))>>),
        StatementDeclaration(ReturnStatement(VariableExpression(Token_new(55, 58,
        "Identifier"))))>>), VariableDeclaration(Token_new(66, 67, "Identifier"),
        CallExpression(VariableExpression(Token_new(70, 74, "Identifier")),
        Token_new(75, 76, "RightParen"), <<>>)),
        StatementDeclaration(PrintStatement(CallExpression(VariableExpression(Token_new(84,
        85, "Identifier")), Token_new(86, 87, "RightParen"), <<>>)))>>]

\* { var x = 1; { var x = 1; print x; } print x; }
P007 ==
    [family |-> "shadow",
     source |->
        <<"{", " ", "v", "a", "r", " ", "x", " ", "=", " ", "1", ";", " ", "{", " ",
        "v", "a", "r", " ", "x", " ", "=", " ", "1", ";", " ", "p", "r", "i", "n", "t",
        " ", "x", ";", " ", "}", " ", "p", "r", "i", "n", "t", " ", "x", ";", " ",
        "}">>,
     want_out |-> <<<<"1">>, <<"1">>>>,
     outer_depth |-> 2,
     outer |-> <<"1">>,
     inner |-> <<"1">>,
     declarations |->
        <<StatementDeclaration(BlockStatement(<<VariableDeclaration(Token_new(6, 7,
        "Identifier"), LiteralNumber(Token_new(10, 11, "Number"))),
        StatementDeclaration(BlockStatement(<<VariableDeclaration(Token_new(19, 20,
        "Identifier"), LiteralNumber(Token_new(23, 24, "Number"))),
        StatementDeclaration(PrintStatement(VariableExpression(Token_new(32, 33,
        "Identifier"))))>>)),
        StatementDeclaration(PrintStatement(VariableExpression(Token_new(43, 44,
        "Identifier"))))>>))>>]

\* { var x = 1; { var x = 2; print x; } print x; }
P008 ==
    [family |-> "shadow",
     source |->
        <<"{", " ", "v", "a", "r", " ", "x", " ", "=", " ", "1", ";", " ", "{", " ",
        "v", "a", "r", " ", "x", " ", "=", " ", "2", ";", " ", "p", "r", "i", "n", "t",
        " ", "x", ";", " ", "}", " ", "p", "r", "i", "n", "t", " ", "x", ";", " ",
        "}">>,
     want_out |-> <<<<"2">>, <<"1">>>>,
     outer_depth |-> 2,
     outer |-> <<"1">>,
     inner |-> <<"2">>,
     declarations |->
        <<StatementDeclaration(BlockStatement(<<VariableDeclaration(Token_new(6, 7,
        "Identifier"), LiteralNumber(Token_new(10, 11, "Number"))),
        StatementDeclaration(BlockStatement(<<VariableDeclaration(Token_new(19, 20,
        "Identifier"), LiteralNumber(Token_new(23, 24, "Number"))),
        StatementDeclaration(PrintStatement(VariableExpression(Token_new(32, 33,
        "Identifier"))))>>)),
        StatementDeclaration(PrintStatement(VariableExpression(Token_new(43, 44,
        "Identifier"))))>>))>>]

\* { var x = 1; { var x = "s"; print x; } print x; }
P009 ==
    [family |-> "shadow",
     source |->
        <<"{", " ", "v", "a", "r", " ", "x", " ", "=", " ", "1", ";", " ", "{", " ",
        "v", "a", "r", " ", "x", " ", "=", " ", "\"", "s", "\"", ";", " ", "p", "r",
        "i", "n", "t", " ", "x", ";", " ", "}", " ", "p", "r", "i", "n", "t", " ", "x",
        ";", " ", "}">>,
     want_out |-> <<<<"s">>, <<"1">>>>,
     outer_depth |-> 2,
     outer |-> <<"1">>,
     inner |-> <<"s">>,
     declarations |->
        <<StatementDeclaration(BlockStatement(<<VariableDeclaration(Token_new(6, 7,
        "Identifier"), LiteralNumber(Token_new(10, 11, "Number"))),
        StatementDeclaration(BlockStatement(<<VariableDeclaration(Token_new(19, 20,
        "Identifier"), LiteralString(Token_new(23, 26, "String_"))),
        StatementDeclaration(PrintStatement(VariableExpression(Token_new(34, 35,
        "Identifier"))))>>)),
        StatementDeclaration(PrintStatement(VariableExpression(Token_new(45, 46,
        "Identifier"))))>>))>>]

\* { var x = 1; { var x = true; print x; } print x; }
P010 ==
    [family |-> "shadow",
     source |->
        <<"{", " ", "v", "a", "r", " ", "x", " ", "=", " ", "1", ";", " ", "{", " ",
        "v", "a", "r", " ", "x", " ", "=", " ", "t", "r", "u", "e", ";", " ", "p", "r",
        "i", "n", "t", " ", "x", ";", " ", "}", " ", "p", "r", "i", "n", "t", " ", "x",
        ";", " ", "}">>,
     want_out |-> <<<<"t", "r", "u", "e">>, <<"1">>>>,
     outer_depth |-> 2,
     outer |-> <<"1">>,
     inner |-> <<"t", "r", "u", "e">>,
     declarations |->
        <<StatementDeclaration(BlockStatement(<<VariableDeclaration(Token_new(6, 7,
        "Identifier"), LiteralNumber(Token_new(10, 11, "Number"))),
        StatementDeclaration(BlockStatement(<<VariableDeclaration(Token_new(19, 20,
        "Identifier"), LiteralBoolean(Span_new(23, 27), TRUE)),
        StatementDeclaration(PrintStatement(VariableExpression(Token_new(35, 36,
        "Identifier"))))>>)),
        StatementDeclaration(PrintStatement(VariableExpression(Token_new(46, 47,
        "Identifier"))))>>))>>]

\* { var x = 2; { var x = 1; print x; } print x; }
P011 ==
    [family |-> "shadow",
     source |->
        <<"{", " ", "v", "a", "r", " ", "x", " ", "=", " ", "2", ";", " ", "{", " ",
        "v", "a", "r", " ", "x", " ", "=", " ", "1", ";", " ", "p", "r", "i", "n", "t",
        " ", "x", ";", " ", "}", " ", "p", "r", "i", "n", "t", " ", "x", ";", " ",
        "}">>,
     want_out |-> <<<<"1">>, <<"2">>>>,
     outer_depth |-> 2,
     outer |-> <<"2">>,
     inner |-> <<"1">>,
     declarations |->
        <<StatementDeclaration(BlockStatement(<<VariableDeclaration(Token_new(6, 7,
        "Identifier"), LiteralNumber(Token_new(10, 11, "Number"))),
        StatementDeclaration(BlockStatement(<<VariableDeclaration(Token_new(19, 20,
        "Identifier"), LiteralNumber(Token_new(23, 24, "Number"))),
        StatementDeclaration(PrintStatement(VariableExpression(Token_new(32, 33,
        "Identifier"))))>>)),
        StatementDeclaration(PrintStatement(VariableExpression(Token_new(43, 44,
        "Identifier"))))>>))>>]

\* { var x = 2; { var x = 2; print x; } print x; }
P012 ==
    [family |-> "shadow",
     source |->
        <<"{", " ", "v", "a", "r", " ", "x", " ", "=", " ", "2", ";", " ", "{", " ",
        "v", "a", "r", " ", "x", " ", "=", " ", "2", ";", " ", "p", "r", "i", "n", "t",
        " ", "x", ";", " ", "}", " ", "p", "r", "i", "n", "t", " ", "x", ";", " ",
        "}">>,
     want_out |-> <<<<"2">>, <<"2">>>>,
     outer_depth |-> 2,
     outer |-> <<"2">>,
     inner |-> <<"2">>,
     declarations |->
        <<StatementDeclaration(BlockStatement(<<VariableDeclaration(Token_new(6, 7,
        "Identifier"), LiteralNumber(Token_new(10, 11, "Number"))),
        StatementDeclaration(BlockStatement(<<VariableDeclaration(Token_new(19, 20,
        "Identifier"), LiteralNumber(Token_new(23, 24, "Number"))),
        StatementDeclaration(PrintStatement(VariableExpression(Token_new(32, 33,
        "Identifier"))))>>)),
        StatementDeclaration(PrintStatement(VariableExpression(Token_new(43, 44,
        "Identifier"))))>>))>>]

\* { var x = 2; { var x = "s"; print x; } print x; }
P013 ==
    [family |-> "shadow",
     source |->
        <<"{", " ", "v", "a", "r", " ", "x", " ", "=", " ", "2", ";", " ", "{", " ",
        "v", "a", "r", " ", "x", " ", "=", " ", "\"", "s", "\"", ";", " ", "p", "r",
        "i", "n", "t", " ", "x", ";", " ", "}", " ", "p", "r", "i", "n", "t", " ", "x",
        ";", " ", "}">>,
     want_out |-> <<<<"s">>, <<"2">>>>,
     outer_depth |-> 2,
     outer |-> <<"2">>,
     inner |-> <<"s">>,
     declarations |->
        <<StatementDeclaration(BlockStatement(<<VariableDeclaration(Token_new(6, 7,
        "Identifier"), LiteralNumber(Token_new(10, 11, "Number"))),
        StatementDeclaration(BlockStatement(<<VariableDeclaration(Token_new(19, 20,
        "Identifier"), LiteralString(Token_new(23, 26, "String_"))),
        StatementDeclaration(PrintStatement(VariableExpression(Token_new(34, 35,
        "Identifier"))))>>)),
        StatementDeclaration(PrintStatement(VariableExpression(Token_new(45, 46,
        "Identifier"))))>>))>>]

\* { var x = 2; { var x = true; print x; } print x; }
P014 ==
    [family |-> "shadow",
     source |->
        <<"{", " ", "v", "a", "r", " ", "x", " ", "=", " ", "2", ";", " ", "{", " ",
        "v", "a", "r", " ", "x", " ", "=", " ", "t", "r", "u", "e", ";", " ", "p", "r",
        "i", "n", "t", " ", "x", ";", " ", "}", " ", "p", "r", "i", "n", "t", " ", "x",
        ";", " ", "}">>,
     want_out |-> <<<<"t", "r", "u", "e">>, <<"2">>>>,
     outer_depth |-> 2,
     outer |-> <<"2">>,
     inner |-> <<"t", "r", "u", "e">>,
     declarations |->
        <<StatementDeclaration(BlockStatement(<<VariableDeclaration(Token_new(6, 7,
        "Identifier"), LiteralNumber(Token_new(10, 11, "Number"))),
        StatementDeclaration(BlockStatement(<<VariableDeclaration(Token_new(19, 20,
        "Identifier"), LiteralBoolean(Span_new(23, 27), TRUE)),
        StatementDeclaration(PrintStatement(VariableExpression(Token_new(35, 36,
        "Identifier"))))>>)),
        StatementDeclaration(PrintStatement(VariableExpression(Token_new(46, 47,
        "Identifier"))))>>))>>]

\* { var x = "s"; { var x = 1; print x; } print x; }
P015 ==
    [family |-> "shadow",
     source |->
        <<"{", " ", "v", "a", "r", " ", "x", " ", "=", " ", "\"", "s", "\"", ";", " ",
        "{", " ", "v", "a", "r", " ", "x", " ", "=", " ", "1", ";", " ", "p", "r", "i",
        "n", "t", " ", "x", ";", " ", "}", " ", "p", "r", "i", "n", "t", " ", "x", ";",
        " ", "}">>,
     want_out |-> <<<<"1">>, <<"s">>>>,
     outer_depth |-> 2,
     outer |-> <<"s">>,
     inner |-> <<"1">>,
     declarations |->
        <<StatementDeclaration(BlockStatement(<<VariableDeclaration(Token_new(6, 7,
        "Identifier"), LiteralString(Token_new(10, 13, "String_"))),
        StatementDeclaration(BlockStatement(<<VariableDeclaration(Token_new(21, 22,
        "Identifier"), LiteralNumber(Token_new(25, 26, "Number"))),
        StatementDeclaration(PrintStatement(VariableExpression(Token_new(34, 35,
        "Identifier"))))>>)),
        StatementDeclaration(PrintStatement(VariableExpression(Token_new(45, 46,
        "Identifier"))))>>))>>]

\* { var x = "s"; { var x = 2; print x; } print x; }
P016 ==
    [family |-> "shadow",
     source |->
        <<"{", " ", "v", "a", "r", " ", "x", " ", "=", " ", "\"", "s", "\"", ";", " ",
        "{", " ", "v", "a", "r", " ", "x", " ", "=", " ", "2", ";", " ", "p", "r", "i",
        "n", "t", " ", "x", ";", " ", "}", " ", "p", "r", "i", "n", "t", " ", "x", ";",
        " ", "}">>,
     want_out |-> <<<<"2">>, <<"s">>>>,
     outer_depth |-> 2,
     outer |-> <<"s">>,
     inner |-> <<"2">>,
     declarations |->
        <<StatementDeclaration(BlockStatement(<<VariableDeclaration(Token_new(6, 7,
        "Identifier"), LiteralString(Token_new(10, 13, "String_"))),
        StatementDeclaration(BlockStatement(<<VariableDeclaration(Token_new(21, 22,
        "Identifier"), LiteralNumber(Token_new(25, 26, "Number"))),
        StatementDeclaration(PrintStatement(VariableExpression(Token_new(34, 35,
        "Identifier"))))>>)),
        StatementDeclaration(PrintStatement(VariableExpression(Token_new(45, 46,
        "Identifier"))))>>))>>]

\* { var x = "s"; { var x = "s"; print x; } print x; }
P017 ==
    [family |-> "shadow",
     source |->
        <<"{", " ", "v", "a", "r", " ", "x", " ", "=", " ", "\"", "s", "\"", ";", " ",
        "{", " ", "v", "a", "r", " ", "x", " ", "=", " ", "\"", "s", "\"", ";", " ",
        "p", "r", "i", "n", "t", " ", "x", ";", " ", "}", " ", "p", "r", "i", "n", "t",
        " ", "x", ";", " ", "}">>,
     want_out |-> <<<<"s">>, <<"s">>>>,
     outer_depth |-> 2,
     outer |-> <<"s">>,
     inner |-> <<"s">>,
     declarations |->
        <<StatementDeclaration(BlockStatement(<<VariableDeclaration(Token_new(6, 7,
        "Identifier"), LiteralString(Token_new(10, 13, "String_"))),
        StatementDeclaration(BlockStatement(<<VariableDeclaration(Token_new(21, 22,
        "Identifier"), LiteralString(Token_new(25, 28, "String_"))),
        StatementDeclaration(PrintStatement(VariableExpression(Token_new(36, 37,
        "Identifier"))))>>)),
        StatementDeclaration(PrintStatement(VariableExpression(Token_new(47, 48,
        "Identifier"))))>>))>>]

\* { var x = "s"; { var x = true; print x; } print x; }
P018 ==
    [family |-> "shadow",
     source |->
        <<"{", " ", "v", "a", "r", " ", "x", " ", "=", " ", "\"", "s", "\"", ";", " ",
        "{", " ", "v", "a", "r", " ", "x", " ", "=", " ", "t", "r", "u", "e", ";", " ",
        "p", "r", "i", "n", "t", " ", "x", ";", " ", "}", " ", "p", "r", "i", "n", "t",
        " ", "x", ";", " ", "}">>,
     want_out |-> <<<<"t", "r", "u", "e">>, <<"s">>>>,
     outer_depth |-> 2,
     outer |-> <<"s">>,
     inner |-> <<"t", "r", "u", "e">>,
     declarations |->
        <<StatementDeclaration(BlockStatement(<<VariableDeclaration(Token_new(6, 7,
        "Identifier"), LiteralString(Token_new(10, 13, "String_"))),
        StatementDeclaration(BlockStatement(<<VariableDeclaration(Token_new(21, 22,
        "Identifier"), LiteralBoolean(Span_new(25, 29), TRUE)),
        StatementDeclaration(PrintStatement(VariableExpression(Token_new(37, 38,
        "Identifier"))))>>)),
        StatementDeclaration(PrintStatement(VariableExpression(Token_new(48, 49,
        "Identifier"))))>>))>>]

\* { var x = true; { var x = 1; print x; } print x; }
P019 ==
    [family |-> "shadow",
     source |->
        <<"{", " ", "v", "a", "r", " ", "x", " ", "=", " ", "t", "r", "u", "e", ";",
        " ", "{", " ", "v", "a", "r", " ", "x", " ", "=", " ", "1", ";", " ", "p", "r",
        "i", "n", "t", " ", "x", ";", " ", "}", " ", "p", "r", "i", "n", "t", " ", "x",
        ";", " ", "}">>,
     want_out |-> <<<<"1">>, <<"t", "r", "u", "e">>>>,
     outer_depth |-> 2,
     outer |-> <<"t", "r", "u", "e">>,
     inner |-> <<"1">>,
     declarations |->
        <<StatementDeclaration(BlockStatement(<<VariableDeclaration(Token_new(6, 7,
        "Identifier"), LiteralBoolean(Span_new(10, 14), TRUE)),
        StatementDeclaration(BlockStatement(<<VariableDeclaration(Token_new(22, 23,
        "Identifier"), LiteralNumber(Token_new(26, 27, "Number"))),
        StatementDeclaration(PrintStatement(VariableExpression(Token_new(35, 36,
        "Identifier"))))>>)),
        StatementDeclaration(PrintStatement(VariableExpression(Token_new(46, 47,
        "Identifier"))))>>))>>]

\* { var x = true; { var x = 2; print x; } print x; }
P020 ==
    [family |-> "shadow",
     source |->
        <<"{", " ", "v", "a", "r", " ", "x", " ", "=", " ", "t", "r", "u", "e", ";",
        " ", "{", " ", "v", "a", "r", " ", "x", " ", "=", " ", "2", ";", " ", "p", "r",
        "i", "n", "t", " ", "x", ";", " ", "}", " ", "p", "r", "i", "n", "t", " ", "x",
        ";", " ", "}">>,
     want_out |-> <<<<"2">>, <<"t", "r", "u", "e">>>>,
     outer_depth |-> 2,
     outer |-> <<"t", "r", "u", "e">>,
     inner |-> <<"2">>,
     declarations |->
        <<StatementDeclaration(BlockStatement(<<VariableDeclaration(Token_new(6, 7,
        "Identifier"), LiteralBoolean(Span_new(10, 14), TRUE)),
        StatementDeclaration(BlockStatement(<<VariableDeclaration(Token_new(22, 23,
        "Identifier"), LiteralNumber(Token_new(26, 27, "Number"))),
        StatementDeclaration(PrintStatement(VariableExpression(Token_new(35, 36,
        "Identifier"))))>>)),
        StatementDeclaration(PrintStatement(VariableExpression(Token_new(46, 47,
        "Identifier"))))>>))>>]

\* { var x = true; { var x = "s"; print x; } print x; }
P021 ==
    [family |-> "shadow",
     source |->
        <<"{", " ", "v", "a", "r", " ", "x", " ", "=", " ", "t", "r", "u", "e", ";",
        " ", "{", " ", "v", "a", "r", " ", "x", " ", "=", " ", "\"", "s", "\"", ";",
        " ", "p", "r", "i", "n", "t", " ", "x", ";", " ", "}", " ", "p", "r", "i", "n",
        "t", " ", "x", ";", " ", "}">>,
     want_out |-> <<<<"s">>, <<"t", "r", "u", "e">>>>,
     outer_depth |-> 2,
     outer |-> <<"t", "r", "u", "e">>,
     inner |-> <<"s">>,
     declarations |->
        <<StatementDeclaration(BlockStatement(<<VariableDeclaration(Token_new(6, 7,
        "Identifier"), LiteralBoolean(Span_new(10, 14), TRUE)),
        StatementDeclaration(BlockStatement(<<VariableDeclaration(Token_new(22, 23,
        "Identifier"), LiteralString(Token_new(26, 29, "String_"))),
        StatementDeclaration(PrintStatement(VariableExpression(Token_new(37, 38,
        "Identifier"))))>>)),
        StatementDeclaration(PrintStatement(VariableExpression(Token_new(48, 49,
        "Identifier"))))>>))>>]

\* { var x = true; { var x = true; print x; } print x; }
P022 ==
    [family |-> "shadow",
     source |->
        <<"{", " ", "v", "a", "r", " ", "x", " ", "=", " ", "t", "r", "u", "e", ";",
        " ", "{", " ", "v", "a", "r", " ", "x", " ", "=", " ", "t", "r", "u", "e", ";",
        " ", "p", "r", "i", "n", "t", " ", "x", ";", " ", "}", " ", "p", "r", "i", "n",
        "t", " ", "x", ";", " ", "}">>,
     want_out |-> <<<<"t", "r", "u", "e">>, <<"t", "r", "u", "e">>>>,
     outer_depth |-> 2,
     outer |-> <<"t", "r", "u", "e">>,
     inner |-> <<"t", "r", "u", "e">>,
     declarations |->
        <<StatementDeclaration(BlockStatement(<<VariableDeclaration(Token_new(6, 7,
        "Identifier"), LiteralBoolean(Span_new(10, 14), TRUE)),
        StatementDeclaration(BlockStatement(<<VariableDeclaration(Token_new(22, 23,
        "Identifier"), LiteralBoolean(Span_new(26, 30), TRUE)),
        StatementDeclaration(PrintStatement(VariableExpression(Token_new(38, 39,
        "Identifier"))))>>)),
        StatementDeclaration(PrintStatement(VariableExpression(Token_new(49, 50,
        "Identifier"))))>>))>>]

\* var x = 1; { var x = 2; print x; } print x;
P023 ==
    [family |-> "shadow",
     source |->
        <<"v", "a", "r", " ", "x", " ", "=", " ", "1", ";", " ", "{", " ", "v", "a",
        "r", " ", "x", " ", "=", " ", "2", ";", " ", "p", "r", "i", "n", "t", " ", "x",
        ";", " ", "}", " ", "p", "r", "i", "n", "t", " ", "x", ";">>,
     want_out |-> <<<<"2">>, <<"1">>>>,
     outer_depth |-> 1,
     outer |-> <<"1">>,
     inner |-> <<"2">>,
     declarations |->
        <<VariableDeclaration(Token_new(4, 5, "Identifier"), LiteralNumber(Token_new(8,
        9, "Number"))),
        StatementDeclaration(BlockStatement(<<VariableDeclaration(Token_new(17, 18,
        "Identifier"), LiteralNumber(Token_new(21, 22, "Number"))),
        StatementDeclaration(PrintStatement(VariableExpression(Token_new(30, 31,
        "Identifier"))))>>)),
        StatementDeclaration(PrintStatement(VariableExpression(Token_new(41, 42,
        "Identifier"))))>>]

\* var x = 1; { var x = "s"; print x; } print x;
P024 ==
    [family |-> "shadow",
     source |->
        <<"v", "a", "r", " ", "x", " ", "=", " ", "1", ";", " ", "{", " ", "v", "a",
        "r", " ", "x", " ", "=", " ", "\"", "s", "\"", ";", " ", "p", "r", "i", "n",
        "t", " ", "x", ";", " ", "}", " ", "p", "r", "i", "n", "t", " ", "x", ";">>,
     want_out |-> <<<<"s">>, <<"1">>>>,
     outer_depth |-> 1,
     outer |-> <<"1">>,
     inner |-> <<"s">>,
     declarations |->
        <<VariableDeclaration(Token_new(4, 5, "Identifier"), LiteralNumber(Token_new(8,
        9, "Number"))),
        StatementDeclaration(BlockStatement(<<VariableDeclaration(Token_new(17, 18,
        "Identifier"), LiteralString(Token_new(21, 24, "String_"))),
        StatementDeclaration(PrintStatement(VariableExpression(Token_new(32, 33,
        "Identifier"))))>>)),
        StatementDeclaration(PrintStatement(VariableExpression(Token_new(43, 44,
        "Identifier"))))>>]

\* var x = 2; { var x = 2; print x; } print x;
P025 ==
    [family |-> "shadow",
     source |->
        <<"v", "a", "r", " ", "x", " ", "=", " ", "2", ";", " ", "{", " ", "v", "a",
        "r", " ", "x", " ", "=", " ", "2", ";", " ", "p", "r", "i", "n", "t", " ", "x",
        ";", " ", "}", " ", "p", "r", "i", "n", "t", " ", "x", ";">>,
     want_out |-> <<<<"2">>, <<"2">>>>,
     outer_depth |-> 1,
     outer |-> <<"2">>,
     inner |-> <<"2">>,
     declarations |->
        <<VariableDeclaration(Token_new(4, 5, "Identifier"), LiteralNumber(Token_new(8,
        9, "Number"))),
        StatementDeclaration(BlockStatement(<<VariableDeclaration(Token_new(17, 18,
        "Identifier"), LiteralNumber(Token_new(21, 22, "Number"))),
        StatementDeclaration(PrintStatement(VariableExpression(Token_new(30, 31,
        "Identifier"))))>>)),
        StatementDeclaration(PrintStatement(VariableExpression(Token_new(41, 42,
        "Identifier"))))>>]

\* var x = 2; { var x = "s"; print x; } print x;
P026 ==
    [family |-> "shadow",
     source |->
        <<"v", "a", "r", " ", "x", " ", "=", " ", "2", ";", " ", "{", " ", "v", "a",
        "r", " ", "x", " ", "=", " ", "\"", "s", "\"", ";", " ", "p", "r", "i", "n",
        "t", " ", "x", ";", " ", "}", " ", "p", "r", "i", "n", "t", " ", "x", ";">>,
     want_out |-> <<<<"s">>, <<"2">>>>,
     outer_depth |-> 1,
     outer |-> <<"2">>,
     inner |-> <<"s">>,
     declarations |->
        <<VariableDeclaration(Token_new(4, 5, "Identifier"), LiteralNumber(Token_new(8,
        9, "Number"))),
        StatementDeclaration(BlockStatement(<<VariableDeclaration(Token_new(17, 18,
        "Identifier"), LiteralString(Token_new(21, 24, "String_"))),
        StatementDeclaration(PrintStatement(VariableExpression(Token_new(32, 33,
        "Identifier"))))>>)),
        StatementDeclaration(PrintStatement(VariableExpression(Token_new(43, 44,
        "Identifier"))))>>]

\* { var x = 1; { var x; print x; } print x; }
P027 ==
    [family |-> "shadow",
     source |->
        <<"{", " ", "v", "a", "r", " ", "x", " ", "=", " ", "1", ";", " ", "{", " ",
        "v", "a", "r", " ", "x", ";", " ", "p", "r", "i", "n", "t", " ", "x", ";", " ",
        "}", " ", "p", "r", "i", "n", "t", " ", "x", ";", " ", "}">>,
     want_out |-> <<<<"n", "i", "l">>, <<"1">>>>,
     outer_depth |-> 2,
     outer |-> <<"1">>,
     inner |-> <<"n", "i", "l">>,
     declarations |->
        <<StatementDeclaration(BlockStatement(<<VariableDeclaration(Token_new(6, 7,
        "Identifier"), LiteralNumber(Token_new(10, 11, "Number"))),
        StatementDeclaration(BlockStatement(<<VariableDeclaration(Token_new(19, 20,
        "Identifier"), NoneNode),
        StatementDeclaration(PrintStatement(VariableExpression(Token_new(28, 29,
        "Identifier"))))>>)),
        StatementDeclaration(PrintStatement(VariableExpression(Token_new(39, 40,
        "Identifier"))))>>))>>]

\* fun f() { var x = 1; { var x = 2; print x; } print x; } f();
P028 ==
    [family |-> "shadow",
     source |->
        <<"f", "u", "n", " ", "f", "(", ")", " ", "{", " ", "v", "a", "r", " ", "x",
        " ", "=", " ", "1", ";", " ", "{", " ", "v", "a", "r", " ", "x", " ", "=", " ",
        "2", ";", " ", "p", "r", "i", "n", "t", " ", "x", ";", " ", "}", " ", "p", "r",
        "i", "n", "t", " ", "x", ";", " ", "}", " ", "f", "(", ")", ";">>,
     want_out |-> <<<<"2">>, <<"1">>>>,
     outer_depth |-> 2,
     outer |-> <<"1">>,
     inner |-> <<"2">>,
     declarations |->
        <<FunctionDeclaration(Token_new(4, 5, "Identifier"), <<>>,
        <<VariableDeclaration(Token_new(14, 15, "Identifier"),
        LiteralNumber(Token_new(18, 19, "Number"))),
        StatementDeclaration(BlockStatement(<<VariableDeclaration(Token_new(27, 28,
        "Identifier"), LiteralNumber(Token_new(31, 32, "Number"))),
        StatementDeclaration(PrintStatement(VariableExpression(Token_new(40, 41,
        "Identifier"))))>>)),
        StatementDeclaration(PrintStatement(VariableExpression(Token_new(51, 52,
        "Identifier"))))>>),
        StatementDeclaration(ExpressionStatement(CallExpression(VariableExpression(Token_new(56,
        57, "Identifier")), Token_new(58, 59, "RightParen"), <<>>)))>>]

\* var x = 1; var x = 2; print x;
P029 ==
    [family |-> "redeclare",
     source |->
        <<"v", "a", "r", " ", "x", " ", "=", " ", "1", ";", " ", "v", "a", "r", " ",
        "x", " ", "=", " ", "2", ";", " ", "p", "r", "i", "n", "t", " ", "x", ";">>,
     want_out |-> <<<<"2">>>>,
     declarations |->
        <<VariableDeclaration(Token_new(4, 5, "Identifier"), LiteralNumber(Token_new(8,
        9, "Number"))), VariableDeclaration(Token_new(15, 16, "Identifier"),
        LiteralNumber(Token_new(19, 20, "Number"))),
        StatementDeclaration(PrintStatement(VariableExpression(Token_new(28, 29,
        "Identifier"))))>>]

\* { var x = 1; var x = "s"; print x; var x; print x; }
P030 ==
    [family |-> "redeclare",
     source |->
        <<"{", " ", "v", "a", "r", " ", "x", " ", "=", " ", "1", ";", " ", "v", "a",
        "r", " ", "x", " ", "=", " ", "\"", "s", "\"", ";", " ", "p", "r", "i", "n",
        "t", " ", "x", ";", " ", "v", "a", "r", " ", "x", ";", " ", "p", "r", "i", "n",
        "t", " ", "x", ";", " ", "}">>,
     want_out |-> <<<<"s">>, <<"n", "i", "l">>>>,
     declarations |->
        <<StatementDeclaration(BlockStatement(<<VariableDeclaration(Token_new(6, 7,
        "Identifier"), LiteralNumber(Token_new(10, 11, "Number"))),
        VariableDeclaration(Token_new(17, 18, "Identifier"),
        LiteralString(Token_new(21, 24, "String_"))),
        StatementDeclaration(PrintStatement(VariableExpression(Token_new(32, 33,
        "Identifier")))), VariableDeclaration(Token_new(39, 40, "Identifier"),
        NoneNode), StatementDeclaration(PrintStatement(VariableExpression(Token_new(48,
        49, "Identifier"))))>>))>>]

\* x = 1;
P031 ==
    [family |-> "assign_undeclared",
     source |->
        <<"x", " ", "=", " ", "1", ";">>,
     name |-> <<"x">>,
     declarations |->
        <<StatementDeclaration(ExpressionStatement(AssignmentExpression(Token_new(0, 1,
        "Identifier"), LiteralNumber(Token_new(4, 5, "Number")))))>>]

\* { { x = 1; } }
P032 ==
    [family |-> "assign_undeclared",
     source |->
        <<"{", " ", "{", " ", "x", " ", "=", " ", "1", ";", " ", "}", " ", "}">>,
     name |-> <<"x">>,
     declarations |->
        <<StatementDeclaration(BlockStatement(<<StatementDeclaration(BlockStatement(<<StatementDeclaration(ExpressionStatement(AssignmentExpression(Token_new(4,
        5, "Identifier"), LiteralNumber(Token_new(8, 9, "Number")))))>>))>>))>>]

\* var y = 0; { var z = 1; x = 2; print 3; }
P033 ==
    [family |-> "assign_undeclared",
     source |->
        <<"v", "a", "r", " ", "y", " ", "=", " ", "0", ";", " ", "{", " ", "v", "a",
        "r", " ", "z", " ", "=", " ", "1", ";", " ", "x", " ", "=", " ", "2", ";", " ",
        "p", "r", "i", "n", "t", " ", "3", ";", " ", "}">>,
     name |-> <<"x">>,
     declarations |->
        <<VariableDeclaration(Token_new(4, 5, "Identifier"), LiteralNumber(Token_new(8,
        9, "Number"))),
        StatementDeclaration(BlockStatement(<<VariableDeclaration(Token_new(17, 18,
        "Identifier"), LiteralNumber(Token_new(21, 22, "Number"))),
        StatementDeclaration(ExpressionStatement(AssignmentExpression(Token_new(24, 25,
        "Identifier"), LiteralNumber(Token_new(28, 29, "Number"))))),
        StatementDeclaration(PrintStatement(LiteralNumber(Token_new(37, 38,
        "Number"))))>>))>>]

\* fun f() { x = 1; } f();
P034 ==
    [family |-> "assign_undeclared",
     source |->
        <<"f", "u", "n", " ", "f", "(", ")", " ", "{", " ", "x", " ", "=", " ", "1",
        ";", " ", "}", " ", "f", "(", ")", ";">>,
     name |-> <<"x">>,
     declarations |->
        <<FunctionDeclaration(Token_new(4, 5, "Identifier"), <<>>,
        <<StatementDeclaration(ExpressionStatement(AssignmentExpression(Token_new(10,
        11, "Identifier"), LiteralNumber(Token_new(14, 15, "Number")))))>>),
        StatementDeclaration(ExpressionStatement(CallExpression(VariableExpression(Token_new(19,
        20, "Identifier")), Token_new(21, 22, "RightParen"), <<>>)))>>]

\* var y = 0; y = x = 1;
P035 ==
    [family |-> "assign_undeclared",
     source |->
        <<"v", "a", "r", " ", "y", " ", "=", " ", "0", ";", " ", "y", " ", "=", " ",
        "x", " ", "=", " ", "1", ";">>,
     name |-> <<"x">>,
     declarations |->
        <<VariableDeclaration(Token_new(4, 5, "Identifier"), LiteralNumber(Token_new(8,
        9, "Number"))),
        StatementDeclaration(ExpressionStatement(AssignmentExpression(Token_new(11, 12,
        "Identifier"), AssignmentExpression(Token_new(15, 16, "Identifier"),
        LiteralNumber(Token_new(19, 20, "Number"))))))>>]

\* var x = 1; { var x = 2; { x = 3; print x; } print x; } print x;
P036 ==
    [family |-> "assign_declared",
     source |->
        <<"v", "a", "r", " ", "x", " ", "=", " ", "1", ";", " ", "{", " ", "v", "a",
        "r", " ", "x", " ", "=", " ", "2", ";", " ", "{", " ", "x", " ", "=", " ", "3",
        ";", " ", "p", "r", "i", "n", "t", " ", "x", ";", " ", "}", " ", "p", "r", "i",
        "n", "t", " ", "x", ";", " ", "}", " ", "p", "r", "i", "n", "t", " ", "x",
        ";">>,
     want_out |-> <<<<"3">>, <<"3">>, <<"1">>>>,
     declarations |->
        <<VariableDeclaration(Token_new(4, 5, "Identifier"), LiteralNumber(Token_new(8,
        9, "Number"))),
        StatementDeclaration(BlockStatement(<<VariableDeclaration(Token_new(17, 18,
        "Identifier"), LiteralNumber(Token_new(21, 22, "Number"))),
        StatementDeclaration(BlockStatement(<<StatementDeclaration(ExpressionStatement(AssignmentExpression(Token_new(26,
        27, "Identifier"), LiteralNumber(Token_new(30, 31, "Number"))))),
        StatementDeclaration(PrintStatement(VariableExpression(Token_new(39, 40,
        "Identifier"))))>>)),
        StatementDeclaration(PrintStatement(VariableExpression(Token_new(50, 51,
        "Identifier"))))>>)),
        StatementDeclaration(PrintStatement(VariableExpression(Token_new(61, 62,
        "Identifier"))))>>]

\* var x = 1; { x = 2; } print x;
P037 ==
    [family |-> "assign_declared",
     source |->
        <<"v", "a", "r", " ", "x", " ", "=", " ", "1", ";", " ", "{", " ", "x", " ",
        "=", " ", "2", ";", " ", "}", " ", "p", "r", "i", "n", "t", " ", "x", ";">>,
     want_out |-> <<<<"2">>>>,
     declarations |->
        <<VariableDeclaration(Token_new(4, 5, "Identifier"), LiteralNumber(Token_new(8,
        9, "Number"))),
        StatementDeclaration(BlockStatement(<<StatementDeclaration(ExpressionStatement(AssignmentExpression(Token_new(13,
        14, "Identifier"), LiteralNumber(Token_new(17, 18, "Number")))))>>)),
        StatementDeclaration(PrintStatement(VariableExpression(Token_new(28, 29,
        "Identifier"))))>>]

\* var x = 1; var y = 5; { var y = 6; x = y; y = 7; print y; } print x; print y;
P038 ==
    [family |-> "assign_declared",
     source |->
        <<"v", "a", "r", " ", "x", " ", "=", " ", "1", ";", " ", "v", "a", "r", " ",
        "y", " ", "=", " ", "5", ";", " ", "{", " ", "v", "a", "r", " ", "y", " ", "=",
        " ", "6", ";", " ", "x", " ", "=", " ", "y", ";", " ", "y", " ", "=", " ", "7",
        ";", " ", "p", "r", "i", "n", "t", " ", "y", ";", " ", "}", " ", "p", "r", "i",
        "n", "t", " ", "x", ";", " ", "p", "r", "i", "n", "t", " ", "y", ";">>,
     want_out |-> <<<<"7">>, <<"6">>, <<"5">>>>,
     declarations |->
        <<VariableDeclaration(Token_new(4, 5, "Identifier"), LiteralNumber(Token_new(8,
        9, "Number"))), VariableDeclaration(Token_new(15, 16, "Identifier"),
        LiteralNumber(Token_new(19, 20, "Number"))),
        StatementDeclaration(BlockStatement(<<VariableDeclaration(Token_new(28, 29,
        "Identifier"), LiteralNumber(Token_new(32, 33, "Number"))),
        StatementDeclaration(ExpressionStatement(AssignmentExpression(Token_new(35, 36,
        "Identifier"), VariableExpression(Token_new(39, 40, "Identifier"))))),
        StatementDeclaration(ExpressionStatement(AssignmentExpression(Token_new(42, 43,
        "Identifier"), LiteralNumber(Token_new(46, 47, "Number"))))),
        StatementDeclaration(PrintStatement(VariableExpression(Token_new(55, 56,
        "Identifier"))))>>)),
        StatementDeclaration(PrintStatement(VariableExpression(Token_new(66, 67,
        "Identifier")))),
        StatementDeclaration(PrintStatement(VariableExpression(Token_new(75, 76,
        "Identifier"))))>>]

\* var x; var y; x = y = 4; print x; print y;
P039 ==
    [family |-> "assign_declared",
     source |->
        <<"v", "a", "r", " ", "x", ";", " ", "v", "a", "r", " ", "y", ";", " ", "x",
        " ", "=", " ", "y", " ", "=", " ", "4", ";", " ", "p", "r", "i", "n", "t", " ",
        "x", ";", " ", "p", "r", "i", "n", "t", " ", "y", ";">>,
     want_out |-> <<<<"4">>, <<"4">>>>,
     declarations |->
        <<VariableDeclaration(Token_new(4, 5, "Identifier"), NoneNode),
        VariableDeclaration(Token_new(11, 12, "Identifier"), NoneNode),
        StatementDeclaration(ExpressionStatement(AssignmentExpression(Token_new(14, 15,
        "Identifier"), AssignmentExpression(Token_new(18, 19, "Identifier"),
        LiteralNumber(Token_new(22, 23, "Number")))))),
        StatementDeclaration(PrintStatement(VariableExpression(Token_new(31, 32,
        "Identifier")))),
        StatementDeclaration(PrintStatement(VariableExpression(Token_new(40, 41,
        "Identifier"))))>>]

\* var x = 0; fun f() { print 1; x = 1; } f(x = 2); print 3;
P040 ==
    [family |-> "arity",
     source |->
        <<"v", "a", "r", " ", "x", " ", "=", " ", "0", ";", " ", "f", "u", "n", " ",
        "f", "(", ")", " ", "{", " ", "p", "r", "i", "n", "t", " ", "1", ";", " ", "x",
        " ", "=", " ", "1", ";", " ", "}", " ", "f", "(", "x", " ", "=", " ", "2", ")",
        ";", " ", "p", "r", "i", "n", "t", " ", "3", ";">>,
     expected |-> 0,
     got |-> 1,
     declarations |->
        <<VariableDeclaration(Token_new(4, 5, "Identifier"), LiteralNumber(Token_new(8,
        9, "Number"))), FunctionDeclaration(Token_new(15, 16, "Identifier"), <<>>,
        <<StatementDeclaration(PrintStatement(LiteralNumber(Token_new(27, 28,
        "Number")))),
        StatementDeclaration(ExpressionStatement(AssignmentExpression(Token_new(30, 31,
        "Identifier"), LiteralNumber(Token_new(34, 35, "Number")))))>>),
        StatementDeclaration(ExpressionStatement(CallExpression(VariableExpression(Token_new(39,
        40, "Identifier")), Token_new(46, 47, "RightParen"),
        <<AssignmentExpression(Token_new(41, 42, "Identifier"),
        LiteralNumber(Token_new(45, 46, "Number")))>>))),
        StatementDeclaration(PrintStatement(LiteralNumber(Token_new(55, 56,
        "Number"))))>>]

\* var x = 0; fun f() { print 1; x = 1; } f(x = 2, x = 2); print 3;
P041 ==
    [family |-> "arity",
     source |->
        <<"v", "a", "r", " ", "x", " ", "=", " ", "0", ";", " ", "f", "u", "n", " ",
        "f", "(", ")", " ", "{", " ", "p", "r", "i", "n", "t", " ", "1", ";", " ", "x",
        " ", "=", " ", "1", ";", " ", "}", " ", "f", "(", "x", " ", "=", " ", "2", ",",
        " ", "x", " ", "=", " ", "2", ")", ";", " ", "p", "r", "i", "n", "t", " ", "3",
        ";">>,
     expected |-> 0,
     got |-> 2,
     declarations |->
        <<VariableDeclaration(Token_new(4, 5, "Identifier"), LiteralNumber(Token_new(8,
        9, "Number"))), FunctionDeclaration(Token_new(15, 16, "Identifier"), <<>>,
        <<StatementDeclaration(PrintStatement(LiteralNumber(Token_new(27, 28,
        "Number")))),
        StatementDeclaration(ExpressionStatement(AssignmentExpression(Token_new(30, 31,
        "Identifier"), LiteralNumber(Token_new(34, 35, "Number")))))>>),
        StatementDeclaration(ExpressionStatement(CallExpression(VariableExpression(Token_new(39,
        40, "Identifier")), Token_new(53, 54, "RightParen"),
        <<AssignmentExpression(Token_new(41, 42, "Identifier"),
        LiteralNumber(Token_new(45, 46, "Number"))), AssignmentExpression(Token_new(48,
        49, "Identifier"), LiteralNumber(Token_new(52, 53, "Number")))>>))),
        StatementDeclaration(PrintStatement(LiteralNumber(Token_new(62, 63,
        "Number"))))>>]

\* var x = 0; fun f() { print 1; x = 1; } f(x = 2, x = 2, x = 2); print 3;
P042 ==
    [family |-> "arity",
     source |->
        <<"v", "a", "r", " ", "x", " ", "=", " ", "0", ";", " ", "f", "u", "n", " ",
        "f", "(", ")", " ", "{", " ", "p", "r", "i", "n", "t", " ", "1", ";", " ", "x",
        " ", "=", " ", "1", ";", " ", "}", " ", "f", "(", "x", " ", "=", " ", "2", ",",
        " ", "x", " ", "=", " ", "2", ",", " ", "x", " ", "=", " ", "2", ")", ";", " ",
        "p", "r", "i", "n", "t", " ", "3", ";">>,
     expected |-> 0,
     got |-> 3,
     declarations |->
        <<VariableDeclaration(Token_new(4, 5, "Identifier"), LiteralNumber(Token_new(8,
        9, "Number"))), FunctionDeclaration(Token_new(15, 16, "Identifier"), <<>>,
        <<StatementDeclaration(PrintStatement(LiteralNumber(Token_new(27, 28,
        "Number")))),
        StatementDeclaration(ExpressionStatement(AssignmentExpression(Token_new(30, 31,
        "Identifier"), LiteralNumber(Token_new(34, 35, "Number")))))>>),
        StatementDeclaration(ExpressionStatement(CallExpression(VariableExpression(Token_new(39,
        40, "Identifier")), Token_new(60, 61, "RightParen"),
        <<AssignmentExpression(Token_new(41, 42, "Identifier"),
        LiteralNumber(Token_new(45, 46, "Number"))), AssignmentExpression(Token_new(48,
        49, "Identifier"), LiteralNumber(Token_new(52, 53, "Number"))),
        AssignmentExpression(Token_new(55, 56, "Identifier"),
        LiteralNumber(Token_new(59, 60, "Number")))>>))),
        StatementDeclaration(PrintStatement(LiteralNumber(Token_new(69, 70,
        "Number"))))>>]

\* var x = 0; fun f(a) { print 1; x = 1; } f(); print 3;
P043 ==
    [family |-> "arity",
     source |->
        <<"v", "a", "r", " ", "x", " ", "=", " ", "0", ";", " ", "f", "u", "n", " ",
        "f", "(", "a", ")", " ", "{", " ", "p", "r", "i", "n", "t", " ", "1", ";", " ",
        "x", " ", "=", " ", "1", ";", " ", "}", " ", "f", "(", ")", ";", " ", "p", "r",
        "i", "n", "t", " ", "3", ";">>,
     expected |-> 1,
     got |-> 0,
     declarations |->
        <<VariableDeclaration(Token_new(4, 5, "Identifier"), LiteralNumber(Token_new(8,
        9, "Number"))), FunctionDeclaration(Token_new(15, 16, "Identifier"),
        <<Token_new(17, 18, "Identifier")>>,
        <<StatementDeclaration(PrintStatement(LiteralNumber(Token_new(28, 29,
        "Number")))),
        StatementDeclaration(ExpressionStatement(AssignmentExpression(Token_new(31, 32,
        "Identifier"), LiteralNumber(Token_new(35, 36, "Number")))))>>),
        StatementDeclaration(ExpressionStatement(CallExpression(VariableExpression(Token_new(40,
        41, "Identifier")), Token_new(42, 43, "RightParen"), <<>>))),
        StatementDeclaration(PrintStatement(LiteralNumber(Token_new(51, 52,
        "Number"))))>>]

\* var x = 0; fun f(a) { print 1; x = 1; } f(x = 2, x = 2); print 3;
P044 ==
    [family |-> "arity",
     source |->
        <<"v", "a", "r", " ", "x", " ", "=", " ", "0", ";", " ", "f", "u", "n", " ",
        "f", "(", "a", ")", " ", "{", " ", "p", "r", "i", "n", "t", " ", "1", ";", " ",
        "x", " ", "=", " ", "1", ";", " ", "}", " ", "f", "(", "x", " ", "=", " ", "2",
        ",", " ", "x", " ", "=", " ", "2", ")", ";", " ", "p", "r", "i", "n", "t", " ",
        "3", ";">>,
     expected |-> 1,
     got |-> 2,
     declarations |->
        <<VariableDeclaration(Token_new(4, 5, "Identifier"), LiteralNumber(Token_new(8,
        9, "Number"))), FunctionDeclaration(Token_new(15, 16, "Identifier"),
        <<Token_new(17, 18, "Identifier")>>,
        <<StatementDeclaration(PrintStatement(LiteralNumber(Token_new(28, 29,
        "Number")))),
        StatementDeclaration(ExpressionStatement(AssignmentExpression(Token_new(31, 32,
        "Identifier"), LiteralNumber(Token_new(35, 36, "Number")))))>>),
        StatementDeclaration(ExpressionStatement(CallExpression(VariableExpression(Token_new(40,
        41, "Identifier")), Token_new(54, 55, "RightParen"),
        <<AssignmentExpression(Token_new(42, 43, "Identifier"),
        LiteralNumber(Token_new(46, 47, "Number"))), AssignmentExpression(Token_new(49,
        50, "Identifier"), LiteralNumber(Token_new(53, 54, "Number")))>>))),
        StatementDeclaration(PrintStatement(LiteralNumber(Token_new(63, 64,
        "Number"))))>>]

\* var x = 0; fun f(a) { print 1; x = 1; } f(x = 2, x = 2, x = 2); print 3;
P045 ==
    [family |-> "arity",
     source |->
        <<"v", "a", "r", " ", "x", " ", "=", " ", "0", ";", " ", "f", "u", "n", " ",
        "f", "(", "a", ")", " ", "{", " ", "p", "r", "i", "n", "t", " ", "1", ";", " ",
        "x", " ", "=", " ", "1", ";", " ", "}", " ", "f", "(", "x", " ", "=", " ", "2",
        ",", " ", "x", " ", "=", " ", "2", ",", " ", "x", " ", "=", " ", "2", ")", ";",
        " ", "p", "r", "i", "n", "t", " ", "3", ";">>,
     expected |-> 1,
     got |-> 3,
     declarations |->
        <<VariableDeclaration(Token_new(4, 5, "Identifier"), LiteralNumber(Token_new(8,
        9, "Number"))), FunctionDeclaration(Token_new(15, 16, "Identifier"),
        <<Token_new(17, 18, "Identifier")>>,
        <<StatementDeclaration(PrintStatement(LiteralNumber(Token_new(28, 29,
        "Number")))),
        StatementDeclaration(ExpressionStatement(AssignmentExpression(Token_new(31, 32,
        "Identifier"), LiteralNumber(Token_new(35, 36, "Number")))))>>),
        StatementDeclaration(ExpressionStatement(CallExpression(VariableExpression(Token_new(40,
        41, "Identifier")), Token_new(61, 62, "RightParen"),
        <<AssignmentExpression(Token_new(42, 43, "Identifier"),
        LiteralNumber(Token_new(46, 47, "Number"))), AssignmentExpression(Token_new(49,
        50, "Identifier"), LiteralNumber(Token_new(53, 54, "Number"))),
        AssignmentExpression(Token_new(56, 57, "Identifier"),
        LiteralNumber(Token_new(60, 61, "Number")))>>))),
        StatementDeclaration(PrintStatement(LiteralNumber(Token_new(70, 71,
        "Number"))))>>]

\* var x = 0; fun f(a, b) { print 1; x = 1; } f(); print 3;
P046 ==
    [family |-> "arity",
     source |->
        <<"v", "a", "r", " ", "x", " ", "=", " ", "0", ";", " ", "f", "u", "n", " ",
        "f", "(", "a", ",", " ", "b", ")", " ", "{", " ", "p", "r", "i", "n", "t", " ",
        "1", ";", " ", "x", " ", "=", " ", "1", ";", " ", "}", " ", "f", "(", ")", ";",
        " ", "p", "r", "i", "n", "t", " ", "3", ";">>,
     expected |-> 2,
     got |-> 0,
     declarations |->
        <<VariableDeclaration(Token_new(4, 5, "Identifier"), LiteralNumber(Token_new(8,
        9, "Number"))), FunctionDeclaration(Token_new(15, 16, "Identifier"),
        <<Token_new(17, 18, "Identifier"), Token_new(20, 21, "Identifier")>>,
        <<StatementDeclaration(PrintStatement(LiteralNumber(Token_new(31, 32,
        "Number")))),
        StatementDeclaration(ExpressionStatement(AssignmentExpression(Token_new(34, 35,
        "Identifier"), LiteralNumber(Token_new(38, 39, "Number")))))>>),
        StatementDeclaration(ExpressionStatement(CallExpression(VariableExpression(Token_new(43,
        44, "Identifier")), Token_new(45, 46, "RightParen"), <<>>))),
        StatementDeclaration(PrintStatement(LiteralNumber(Token_new(54, 55,
        "Number"))))>>]

\* var x = 0; fun f(a, b) { print 1; x = 1; } f(x = 2); print 3;
P047 ==
    [family |-> "arity",
     source |->
        <<"v", "a", "r", " ", "x", " ", "=", " ", "0", ";", " ", "f", "u", "n", " ",
        "f", "(", "a", ",", " ", "b", ")", " ", "{", " ", "p", "r", "i", "n", "t", " ",
        "1", ";", " ", "x", " ", "=", " ", "1", ";", " ", "}", " ", "f", "(", "x", " ",
        "=", " ", "2", ")", ";", " ", "p", "r", "i", "n", "t", " ", "3", ";">>,
     expected |-> 2,
     got |-> 1,
     declarations |->
        <<VariableDeclaration(Token_new(4, 5, "Identifier"), LiteralNumber(Token_new(8,
        9, "Number"))), FunctionDeclaration(Token_new(15, 16, "Identifier"),
        <<Token_new(17, 18, "Identifier"), Token_new(20, 21, "Identifier")>>,
        <<StatementDeclaration(PrintStatement(LiteralNumber(Token_new(31, 32,
        "Number")))),
        StatementDeclaration(ExpressionStatement(AssignmentExpression(Token_new(34, 35,
        "Identifier"), LiteralNumber(Token_new(38, 39, "Number")))))>>),
        StatementDeclaration(ExpressionStatement(CallExpression(VariableExpression(Token_new(43,
        44, "Identifier")), Token_new(50, 51, "RightParen"),
        <<AssignmentExpression(Token_new(45, 46, "Identifier"),
        LiteralNumber(Token_new(49, 50, "Number")))>>))),
        StatementDeclaration(PrintStatement(LiteralNumber(Token_new(59, 60,
        "Number"))))>>]

\* var x = 0; fun f(a, b) { print 1; x = 1; } f(x = 2, x = 2, x = 2); print 3;
P048 ==
    [family |-> "arity",
     source |->
        <<"v", "a", "r", " ", "x", " ", "=", " ", "0", ";", " ", "f", "u", "n", " ",
        "f", "(", "a", ",", " ", "b", ")", " ", "{", " ", "p", "r", "i", "n", "t", " ",
        "1", ";", " ", "x", " ", "=", " ", "1", ";", " ", "}", " ", "f", "(", "x", " ",
        "=", " ", "2", ",", " ", "x", " ", "=", " ", "2", ",", " ", "x", " ", "=", " ",
        "2", ")", ";", " ", "p", "r", "i", "n", "t", " ", "3", ";">>,
     expected |-> 2,
     got |-> 3,
     declarations |->
        <<VariableDeclaration(Token_new(4, 5, "Identifier"), LiteralNumber(Token_new(8,
        9, "Number"))), FunctionDeclaration(Token_new(15, 16, "Identifier"),
        <<Token_new(17, 18, "Identifier"), Token_new(20, 21, "Identifier")>>,
        <<StatementDeclaration(PrintStatement(LiteralNumber(Token_new(31, 32,
        "Number")))),
        StatementDeclaration(ExpressionStatement(AssignmentExpression(Token_new(34, 35,
        "Identifier"), LiteralNumber(Token_new(38, 39, "Number")))))>>),
        StatementDeclaration(ExpressionStatement(CallExpression(VariableExpression(Token_new(43,
        44, "Identifier")), Token_new(64, 65, "RightParen"),
        <<AssignmentExpression(Token_new(45, 46, "Identifier"),
        LiteralNumber(Token_new(49, 50, "Number"))), AssignmentExpression(Token_new(52,
        53, "Identifier"), LiteralNumber(Token_new(56, 57, "Number"))),
        AssignmentExpression(Token_new(59, 60, "Identifier"),
        LiteralNumber(Token_new(63, 64, "Number")))>>))),
        StatementDeclaration(PrintStatement(LiteralNumber(Token_new(73, 74,
        "Number"))))>>]

\* var x = 0; fun f(a, b) { print 1; x = 1; } { var y = f(x = 2); print y; }
P049 ==
    [family |-> "arity",
     source |->
        <<"v", "a", "r", " ", "x", " ", "=", " ", "0", ";", " ", "f", "u", "n", " ",
        "f", "(", "a", ",", " ", "b", ")", " ", "{", " ", "p", "r", "i", "n", "t", " ",
        "1", ";", " ", "x", " ", "=", " ", "1", ";", " ", "}", " ", "{", " ", "v", "a",
        "r", " ", "y", " ", "=", " ", "f", "(", "x", " ", "=", " ", "2", ")", ";", " ",
        "p", "r", "i", "n", "t", " ", "y", ";", " ", "}">>,
     expected |-> 2,
     got |-> 1,
     declarations |->
        <<VariableDeclaration(Token_new(4, 5, "Identifier"), LiteralNumber(Token_new(8,
        9, "Number"))), FunctionDeclaration(Token_new(15, 16, "Identifier"),
        <<Token_new(17, 18, "Identifier"), Token_new(20, 21, "Identifier")>>,
        <<StatementDeclaration(PrintStatement(LiteralNumber(Token_new(31, 32,
        "Number")))),
        StatementDeclaration(ExpressionStatement(AssignmentExpression(Token_new(34, 35,
        "Identifier"), LiteralNumber(Token_new(38, 39, "Number")))))>>),
        StatementDeclaration(BlockStatement(<<VariableDeclaration(Token_new(49, 50,
        "Identifier"), CallExpression(VariableExpression(Token_new(53, 54,
        "Identifier")), Token_new(60, 61, "RightParen"),
        <<AssignmentExpression(Token_new(55, 56, "Identifier"),
        LiteralNumber(Token_new(59, 60, "Number")))>>)),
        StatementDeclaration(PrintStatement(VariableExpression(Token_new(69, 70,
        "Identifier"))))>>))>>]

\* fun f() { return 1; print "D"; } print f(); print 3;
P050 ==
    [family |-> "return",
     source |->
        <<"f", "u", "n", " ", "f", "(", ")", " ", "{", " ", "r", "e", "t", "u", "r",
        "n", " ", "1", ";", " ", "p", "r", "i", "n", "t", " ", "\"", "D", "\"", ";",
        " ", "}", " ", "p", "r", "i", "n", "t", " ", "f", "(", ")", ";", " ", "p", "r",
        "i", "n", "t", " ", "3", ";">>,
     want_out |-> <<<<"1">>, <<"3">>>>,
     declarations |->
        <<FunctionDeclaration(Token_new(4, 5, "Identifier"), <<>>,
        <<StatementDeclaration(ReturnStatement(LiteralNumber(Token_new(17, 18,
        "Number")))), StatementDeclaration(PrintStatement(LiteralString(Token_new(26,
        29, "String_"))))>>),
        StatementDeclaration(PrintStatement(CallExpression(VariableExpression(Token_new(39,
        40, "Identifier")), Token_new(41, 42, "RightParen"), <<>>))),
        StatementDeclaration(PrintStatement(LiteralNumber(Token_new(50, 51,
        "Number"))))>>]

\* fun f() { print 1; } print f();
P051 ==
    [family |-> "return",
     source |->
        <<"f", "u", "n", " ", "f", "(", ")", " ", "{", " ", "p", "r", "i", "n", "t",
        " ", "1", ";", " ", "}", " ", "p", "r", "i", "n", "t", " ", "f", "(", ")",
        ";">>,
     want_out |-> <<<<"1">>, <<"n", "i", "l">>>>,
     declarations |->
        <<FunctionDeclaration(Token_new(4, 5, "Identifier"), <<>>,
        <<StatementDeclaration(PrintStatement(LiteralNumber(Token_new(16, 17,
        "Number"))))>>),
        StatementDeclaration(PrintStatement(CallExpression(VariableExpression(Token_new(27,
        28, "Identifier")), Token_new(29, 30, "RightParen"), <<>>)))>>]

\* fun f() {} print f();
P052 ==
    [family |-> "return",
     source |->
        <<"f", "u", "n", " ", "f", "(", ")", " ", "{", "}", " ", "p", "r", "i", "n",
        "t", " ", "f", "(", ")", ";">>,
     want_out |-> <<<<"n", "i", "l">>>>,
     declarations |->
        <<FunctionDeclaration(Token_new(4, 5, "Identifier"), <<>>, <<>>),
        StatementDeclaration(PrintStatement(CallExpression(VariableExpression(Token_new(17,
        18, "Identifier")), Token_new(19, 20, "RightParen"), <<>>)))>>]

\* fun f() { { if (true) { while (true) { return 5; print "D"; } print "D"; } print "D"; } print "D"; } print f(); print 7;
P053 ==
    [family |-> "return",
     source |->
        <<"f", "u", "n", " ", "f", "(", ")", " ", "{", " ", "{", " ", "i", "f", " ",
        "(", "t", "r", "u", "e", ")", " ", "{", " ", "w", "h", "i", "l", "e", " ", "(",
        "t", "r", "u", "e", ")", " ", "{", " ", "r", "e", "t", "u", "r", "n", " ", "5",
        ";", " ", "p", "r", "i", "n", "t", " ", "\"", "D", "\"", ";", " ", "}", " ",
        "p", "r", "i", "n", "t", " ", "\"", "D", "\"", ";", " ", "}", " ", "p", "r",
        "i", "n", "t", " ", "\"", "D", "\"", ";", " ", "}", " ", "p", "r", "i", "n",
        "t", " ", "\"", "D", "\"", ";", " ", "}", " ", "p", "r", "i", "n", "t", " ",
        "f", "(", ")", ";", " ", "p", "r", "i", "n", "t", " ", "7", ";">>,
     want_out |-> <<<<"5">>, <<"7">>>>,
     declarations |->
        <<FunctionDeclaration(Token_new(4, 5, "Identifier"), <<>>,
        <<StatementDeclaration(BlockStatement(<<StatementDeclaration(IfStatement(LiteralBoolean(Span_new(16,
        20), TRUE),
        BlockStatement(<<StatementDeclaration(WhileStatement(LiteralBoolean(Span_new(31,
        35), TRUE),
        BlockStatement(<<StatementDeclaration(ReturnStatement(LiteralNumber(Token_new(46,
        47, "Number")))),
        StatementDeclaration(PrintStatement(LiteralString(Token_new(55, 58,
        "String_"))))>>))),
        StatementDeclaration(PrintStatement(LiteralString(Token_new(68, 71,
        "String_"))))>>), NoneNode)),
        StatementDeclaration(PrintStatement(LiteralString(Token_new(81, 84,
        "String_"))))>>)),
        StatementDeclaration(PrintStatement(LiteralString(Token_new(94, 97,
        "String_"))))>>),
        StatementDeclaration(PrintStatement(CallExpression(VariableExpression(Token_new(107,
        108, "Identifier")), Token_new(109, 110, "RightParen"), <<>>))),
        StatementDeclaration(PrintStatement(LiteralNumber(Token_new(118, 119,
        "Number"))))>>]

\* fun f() { if (true) return 1; return 2; } print f();
P054 ==
    [family |-> "return",
     source |->
        <<"f", "u", "n", " ", "f", "(", ")", " ", "{", " ", "i", "f", " ", "(", "t",
        "r", "u", "e", ")", " ", "r", "e", "t", "u", "r", "n", " ", "1", ";", " ", "r",
        "e", "t", "u", "r", "n", " ", "2", ";", " ", "}", " ", "p", "r", "i", "n", "t",
        " ", "f", "(", ")", ";">>,
     want_out |-> <<<<"1">>>>,
     declarations |->
        <<FunctionDeclaration(Token_new(4, 5, "Identifier"), <<>>,
        <<StatementDeclaration(IfStatement(LiteralBoolean(Span_new(14, 18), TRUE),
        ReturnStatement(LiteralNumber(Token_new(27, 28, "Number"))), NoneNode)),
        StatementDeclaration(ReturnStatement(LiteralNumber(Token_new(37, 38,
        "Number"))))>>),
        StatementDeclaration(PrintStatement(CallExpression(VariableExpression(Token_new(48,
        49, "Identifier")), Token_new(50, 51, "RightParen"), <<>>)))>>]

\* fun f(n) { while (n < 3) { if (n == 2) return n; n = n + 1; } return 9; } print f(0); print f(5);
P055 ==
    [family |-> "return",
     source |->
        <<"f", "u", "n", " ", "f", "(", "n", ")", " ", "{", " ", "w", "h", "i", "l",
        "e", " ", "(", "n", " ", "<", " ", "3", ")", " ", "{", " ", "i", "f", " ", "(",
        "n", " ", "=", "=", " ", "2", ")", " ", "r", "e", "t", "u", "r", "n", " ", "n",
        ";", " ", "n", " ", "=", " ", "n", " ", "+", " ", "1", ";", " ", "}", " ", "r",
        "e", "t", "u", "r", "n", " ", "9", ";", " ", "}", " ", "p", "r", "i", "n", "t",
        " ", "f", "(", "0", ")", ";", " ", "p", "r", "i", "n", "t", " ", "f", "(", "5",
        ")", ";">>,
     want_out |-> <<<<"2">>, <<"9">>>>,
     declarations |->
        <<FunctionDeclaration(Token_new(4, 5, "Identifier"), <<Token_new(6, 7,
        "Identifier")>>,
        <<StatementDeclaration(WhileStatement(BinaryExpression(VariableExpression(Token_new(18,
        19, "Identifier")), LiteralNumber(Token_new(22, 23, "Number")), Token_new(20,
        21, "Less")),
        BlockStatement(<<StatementDeclaration(IfStatement(BinaryExpression(VariableExpression(Token_new(31,
        32, "Identifier")), LiteralNumber(Token_new(36, 37, "Number")), Token_new(33,
        35, "EqualEqual")), ReturnStatement(VariableExpression(Token_new(46, 47,
        "Identifier"))), NoneNode)),
        StatementDeclaration(ExpressionStatement(AssignmentExpression(Token_new(49, 50,
        "Identifier"), BinaryExpression(VariableExpression(Token_new(53, 54,
        "Identifier")), LiteralNumber(Token_new(57, 58, "Number")), Token_new(55, 56,
        "Plus")))))>>))),
        StatementDeclaration(ReturnStatement(LiteralNumber(Token_new(69, 70,
        "Number"))))>>),
        StatementDeclaration(PrintStatement(CallExpression(VariableExpression(Token_new(80,
        81, "Identifier")), Token_new(83, 84, "RightParen"),
        <<LiteralNumber(Token_new(82, 83, "Number"))>>))),
        StatementDeclaration(PrintStatement(CallExpression(VariableExpression(Token_new(92,
        93, "Identifier")), Token_new(95, 96, "RightParen"),
        <<LiteralNumber(Token_new(94, 95, "Number"))>>)))>>]

\* fun g() { return 4; } fun f() { g(); print 6; return 8; } print f();
P056 ==
    [family |-> "return",
     source |->
        <<"f", "u", "n", " ", "g", "(", ")", " ", "{", " ", "r", "e", "t", "u", "r",
        "n", " ", "4", ";", " ", "}", " ", "f", "u", "n", " ", "f", "(", ")", " ", "{",
        " ", "g", "(", ")", ";", " ", "p", "r", "i", "n", "t", " ", "6", ";", " ", "r",
        "e", "t", "u", "r", "n", " ", "8", ";", " ", "}", " ", "p", "r", "i", "n", "t",
        " ", "f", "(", ")", ";">>,
     want_out |-> <<<<"6">>, <<"8">>>>,
     declarations |->
        <<FunctionDeclaration(Token_new(4, 5, "Identifier"), <<>>,
        <<StatementDeclaration(ReturnStatement(LiteralNumber(Token_new(17, 18,
        "Number"))))>>), FunctionDeclaration(Token_new(26, 27, "Identifier"), <<>>,
        <<StatementDeclaration(ExpressionStatement(CallExpression(VariableExpression(Token_new(32,
        33, "Identifier")), Token_new(34, 35, "RightParen"), <<>>))),
        StatementDeclaration(PrintStatement(LiteralNumber(Token_new(43, 44,
        "Number")))), StatementDeclaration(ReturnStatement(LiteralNumber(Token_new(53,
        54, "Number"))))>>),
        StatementDeclaration(PrintStatement(CallExpression(VariableExpression(Token_new(64,
        65, "Identifier")), Token_new(66, 67, "RightParen"), <<>>)))>>]

\* fun f(b) { if (b) { return 1; } else { return 2; } print "D"; } print f(true); print f(false);
P057 ==
    [family |-> "return",
     source |->
        <<"f", "u", "n", " ", "f", "(", "b", ")", " ", "{", " ", "i", "f", " ", "(",
        "b", ")", " ", "{", " ", "r", "e", "t", "u", "r", "n", " ", "1", ";", " ", "}",
        " ", "e", "l", "s", "e", " ", "{", " ", "r", "e", "t", "u", "r", "n", " ", "2",
        ";", " ", "}", " ", "p", "r", "i", "n", "t", " ", "\"", "D", "\"", ";", " ",
        "}", " ", "p", "r", "i", "n", "t", " ", "f", "(", "t", "r", "u", "e", ")", ";",
        " ", "p", "r", "i", "n", "t", " ", "f", "(", "f", "a", "l", "s", "e", ")",
        ";">>,
     want_out |-> <<<<"1">>, <<"2">>>>,
     declarations |->
        <<FunctionDeclaration(Token_new(4, 5, "Identifier"), <<Token_new(6, 7,
        "Identifier")>>,
        <<StatementDeclaration(IfStatement(VariableExpression(Token_new(15, 16,
        "Identifier")),
        BlockStatement(<<StatementDeclaration(ReturnStatement(LiteralNumber(Token_new(27,
        28, "Number"))))>>),
        BlockStatement(<<StatementDeclaration(ReturnStatement(LiteralNumber(Token_new(46,
        47, "Number"))))>>))),
        StatementDeclaration(PrintStatement(LiteralString(Token_new(57, 60,
        "String_"))))>>),
        StatementDeclaration(PrintStatement(CallExpression(VariableExpression(Token_new(70,
        71, "Identifier")), Token_new(76, 77, "RightParen"),
        <<LiteralBoolean(Span_new(72, 76), TRUE)>>))),
        StatementDeclaration(PrintStatement(CallExpression(VariableExpression(Token_new(85,
        86, "Identifier")), Token_new(92, 93, "RightParen"),
        <<LiteralBoolean(Span_new(87, 92), FALSE)>>)))>>]

\* fun f() { return "s"; return "D"; } var r = f(); print r; print r;
P058 ==
    [family |-> "return",
     source |->
        <<"f", "u", "n", " ", "f", "(", ")", " ", "{", " ", "r", "e", "t", "u", "r",
        "n", " ", "\"", "s", "\"", ";", " ", "r", "e", "t", "u", "r", "n", " ", "\"",
        "D", "\"", ";", " ", "}", " ", "v", "a", "r", " ", "r", " ", "=", " ", "f",
        "(", ")", ";", " ", "p", "r", "i", "n", "t", " ", "r", ";", " ", "p", "r", "i",
        "n", "t", " ", "r", ";">>,
     want_out |-> <<<<"s">>, <<"s">>>>,
     declarations |->
        <<FunctionDeclaration(Token_new(4, 5, "Identifier"), <<>>,
        <<StatementDeclaration(ReturnStatement(LiteralString(Token_new(17, 20,
        "String_")))), StatementDeclaration(ReturnStatement(LiteralString(Token_new(29,
        32, "String_"))))>>), VariableDeclaration(Token_new(40, 41, "Identifier"),
        CallExpression(VariableExpression(Token_new(44, 45, "Identifier")),
        Token_new(46, 47, "RightParen"), <<>>)),
        StatementDeclaration(PrintStatement(VariableExpression(Token_new(55, 56,
        "Identifier")))),
        StatementDeclaration(PrintStatement(VariableExpression(Token_new(64, 65,
        "Identifier"))))>>]

\* print 1; print 1 - "a"; print "D"; var z = 1;
P059 ==
    [family |-> "error",
     source |->
        <<"p", "r", "i", "n", "t", " ", "1", ";", " ", "p", "r", "i", "n", "t", " ",
        "1", " ", "-", " ", "\"", "a", "\"", ";", " ", "p", "r", "i", "n", "t", " ",
        "\"", "D", "\"", ";", " ", "v", "a", "r", " ", "z", " ", "=", " ", "1", ";">>,
     want_out |-> <<<<"1">>>>,
     want_error |-> "Type",
     declarations |->
        <<StatementDeclaration(PrintStatement(LiteralNumber(Token_new(6, 7,
        "Number")))),
        StatementDeclaration(PrintStatement(BinaryExpression(LiteralNumber(Token_new(15,
        16, "Number")), LiteralString(Token_new(19, 22, "String_")), Token_new(17, 18,
        "Minus")))), StatementDeclaration(PrintStatement(LiteralString(Token_new(30,
        33, "String_")))), VariableDeclaration(Token_new(39, 40, "Identifier"),
        LiteralNumber(Token_new(43, 44, "Number")))>>]

\* print 1; { print q; print "D"; } print "D"; var z = 1;
P060 ==
    [family |-> "error",
     source |->
        <<"p", "r", "i", "n", "t", " ", "1", ";", " ", "{", " ", "p", "r", "i", "n",
        "t", " ", "q", ";", " ", "p", "r", "i", "n", "t", " ", "\"", "D", "\"", ";",
        " ", "}", " ", "p", "r", "i", "n", "t", " ", "\"", "D", "\"", ";", " ", "v",
        "a", "r", " ", "z", " ", "=", " ", "1", ";">>,
     want_out |-> <<<<"1">>>>,
     want_error |-> "VariableDoesntExist",
     declarations |->
        <<StatementDeclaration(PrintStatement(LiteralNumber(Token_new(6, 7,
        "Number")))),
        StatementDeclaration(BlockStatement(<<StatementDeclaration(PrintStatement(VariableExpression(Token_new(17,
        18, "Identifier")))),
        StatementDeclaration(PrintStatement(LiteralString(Token_new(26, 29,
        "String_"))))>>)),
        StatementDeclaration(PrintStatement(LiteralString(Token_new(39, 42,
        "String_")))), VariableDeclaration(Token_new(48, 49, "Identifier"),
        LiteralNumber(Token_new(52, 53, "Number")))>>]

\* var n = 1; print 2; n(); print "D"; var z = 1;
P061 ==
    [family |-> "error",
     source |->
        <<"v", "a", "r", " ", "n", " ", "=", " ", "1", ";", " ", "p", "r", "i", "n",
        "t", " ", "2", ";", " ", "n", "(", ")", ";", " ", "p", "r", "i", "n", "t", " ",
        "\"", "D", "\"", ";", " ", "v", "a", "r", " ", "z", " ", "=", " ", "1", ";">>,
     want_out |-> <<<<"2">>>>,
     want_error |-> "NotCallable",
     declarations |->
        <<VariableDeclaration(Token_new(4, 5, "Identifier"), LiteralNumber(Token_new(8,
        9, "Number"))), StatementDeclaration(PrintStatement(LiteralNumber(Token_new(17,
        18, "Number")))),
        StatementDeclaration(ExpressionStatement(CallExpression(VariableExpression(Token_new(20,
        21, "Identifier")), Token_new(22, 23, "RightParen"), <<>>))),
        StatementDeclaration(PrintStatement(LiteralString(Token_new(31, 34,
        "String_")))), VariableDeclaration(Token_new(40, 41, "Identifier"),
        LiteralNumber(Token_new(44, 45, "Number")))>>]

\* fun f(a) { print "D"; } print 1; f(); print "D"; var z = 1;
P062 ==
    [family |-> "error",
     source |->
        <<"f", "u", "n", " ", "f", "(", "a", ")", " ", "{", " ", "p", "r", "i", "n",
        "t", " ", "\"", "D", "\"", ";", " ", "}", " ", "p", "r", "i", "n", "t", " ",
        "1", ";", " ", "f", "(", ")", ";", " ", "p", "r", "i", "n", "t", " ", "\"",
        "D", "\"", ";", " ", "v", "a", "r", " ", "z", " ", "=", " ", "1", ";">>,
     want_out |-> <<<<"1">>>>,
     want_error |-> "Arity",
     declarations |->
        <<FunctionDeclaration(Token_new(4, 5, "Identifier"), <<Token_new(6, 7,
        "Identifier")>>,
        <<StatementDeclaration(PrintStatement(LiteralString(Token_new(17, 20,
        "String_"))))>>),
        StatementDeclaration(PrintStatement(LiteralNumber(Token_new(30, 31,
        "Number")))),
        StatementDeclaration(ExpressionStatement(CallExpression(VariableExpression(Token_new(33,
        34, "Identifier")), Token_new(35, 36, "RightParen"), <<>>))),
        StatementDeclaration(PrintStatement(LiteralString(Token_new(44, 47,
        "String_")))), VariableDeclaration(Token_new(53, 54, "Identifier"),
        LiteralNumber(Token_new(57, 58, "Number")))>>]

\* var i = 0; while (i < 3) { print i; i = i + 1; if (i == 2) nil - 1; } print "D"; var z = 1;
P063 ==
    [family |-> "error",
     source |->
        <<"v", "a", "r", " ", "i", " ", "=", " ", "0", ";", " ", "w", "h", "i", "l",
        "e", " ", "(", "i", " ", "<", " ", "3", ")", " ", "{", " ", "p", "r", "i", "n",
        "t", " ", "i", ";", " ", "i", " ", "=", " ", "i", " ", "+", " ", "1", ";", " ",
        "i", "f", " ", "(", "i", " ", "=", "=", " ", "2", ")", " ", "n", "i", "l", " ",
        "-", " ", "1", ";", " ", "}", " ", "p", "r", "i", "n", "t", " ", "\"", "D",
        "\"", ";", " ", "v", "a", "r", " ", "z", " ", "=", " ", "1", ";">>,
     want_out |-> <<<<"0">>, <<"1">>>>,
     want_error |-> "Type",
     declarations |->
        <<VariableDeclaration(Token_new(4, 5, "Identifier"), LiteralNumber(Token_new(8,
        9, "Number"))),
        StatementDeclaration(WhileStatement(BinaryExpression(VariableExpression(Token_new(18,
        19, "Identifier")), LiteralNumber(Token_new(22, 23, "Number")), Token_new(20,
        21, "Less")),
        BlockStatement(<<StatementDeclaration(PrintStatement(VariableExpression(Token_new(33,
        34, "Identifier")))),
        StatementDeclaration(ExpressionStatement(AssignmentExpression(Token_new(36, 37,
        "Identifier"), BinaryExpression(VariableExpression(Token_new(40, 41,
        "Identifier")), LiteralNumber(Token_new(44, 45, "Number")), Token_new(42, 43,
        "Plus"))))),
        StatementDeclaration(IfStatement(BinaryExpression(VariableExpression(Token_new(51,
        52, "Identifier")), LiteralNumber(Token_new(56, 57, "Number")), Token_new(53,
        55, "EqualEqual")),
        ExpressionStatement(BinaryExpression(LiteralNil(Span_new(59, 62)),
        LiteralNumber(Token_new(65, 66, "Number")), Token_new(63, 64, "Minus"))),
        NoneNode))>>))),
        StatementDeclaration(PrintStatement(LiteralString(Token_new(76, 79,
        "String_")))), VariableDeclaration(Token_new(85, 86, "Identifier"),
        LiteralNumber(Token_new(89, 90, "Number")))>>]

\* fun f() { print 1; q; print "D"; } fun g() { f(); print "D"; } g(); print "D"; var z = 1;
P064 ==
    [family |-> "error",
     source |->
        <<"f", "u", "n", " ", "f", "(", ")", " ", "{", " ", "p", "r", "i", "n", "t",
        " ", "1", ";", " ", "q", ";", " ", "p", "r", "i", "n", "t", " ", "\"", "D",
        "\"", ";", " ", "}", " ", "f", "u", "n", " ", "g", "(", ")", " ", "{", " ",
        "f", "(", ")", ";", " ", "p", "r", "i", "n", "t", " ", "\"", "D", "\"", ";",
        " ", "}", " ", "g", "(", ")", ";", " ", "p", "r", "i", "n", "t", " ", "\"",
        "D", "\"", ";", " ", "v", "a", "r", " ", "z", " ", "=", " ", "1", ";">>,
     want_out |-> <<<<"1">>>>,
     want_error |-> "VariableDoesntExist",
     declarations |->
        <<FunctionDeclaration(Token_new(4, 5, "Identifier"), <<>>,
        <<StatementDeclaration(PrintStatement(LiteralNumber(Token_new(16, 17,
        "Number")))),
        StatementDeclaration(ExpressionStatement(VariableExpression(Token_new(19, 20,
        "Identifier")))),
        StatementDeclaration(PrintStatement(LiteralString(Token_new(28, 31,
        "String_"))))>>), FunctionDeclaration(Token_new(39, 40, "Identifier"), <<>>,
        <<StatementDeclaration(ExpressionStatement(CallExpression(VariableExpression(Token_new(45,
        46, "Identifier")), Token_new(47, 48, "RightParen"), <<>>))),
        StatementDeclaration(PrintStatement(LiteralString(Token_new(56, 59,
        "String_"))))>>),
        StatementDeclaration(ExpressionStatement(CallExpression(VariableExpression(Token_new(63,
        64, "Identifier")), Token_new(65, 66, "RightParen"), <<>>))),
        StatementDeclaration(PrintStatement(LiteralString(Token_new(74, 77,
        "String_")))), VariableDeclaration(Token_new(83, 84, "Identifier"),
        LiteralNumber(Token_new(87, 88, "Number")))>>]

\* fun f(a, b) { print "D"; } f(1, 2 * nil); print "D"; var z = 1;
P065 ==
    [family |-> "error",
     source |->
        <<"f", "u", "n", " ", "f", "(", "a", ",", " ", "b", ")", " ", "{", " ", "p",
        "r", "i", "n", "t", " ", "\"", "D", "\"", ";", " ", "}", " ", "f", "(", "1",
        ",", " ", "2", " ", "*", " ", "n", "i", "l", ")", ";", " ", "p", "r", "i", "n",
        "t", " ", "\"", "D", "\"", ";", " ", "v", "a", "r", " ", "z", " ", "=", " ",
        "1", ";">>,
     want_out |-> <<>>,
     want_error |-> "Type",
     declarations |->
        <<FunctionDeclaration(Token_new(4, 5, "Identifier"), <<Token_new(6, 7,
        "Identifier"), Token_new(9, 10, "Identifier")>>,
        <<StatementDeclaration(PrintStatement(LiteralString(Token_new(20, 23,
        "String_"))))>>),
        StatementDeclaration(ExpressionStatement(CallExpression(VariableExpression(Token_new(27,
        28, "Identifier")), Token_new(39, 40, "RightParen"),
        <<LiteralNumber(Token_new(29, 30, "Number")),
        BinaryExpression(LiteralNumber(Token_new(32, 33, "Number")),
        LiteralNil(Span_new(36, 39)), Token_new(34, 35, "Star"))>>))),
        StatementDeclaration(PrintStatement(LiteralString(Token_new(48, 51,
        "String_")))), VariableDeclaration(Token_new(57, 58, "Identifier"),
        LiteralNumber(Token_new(61, 62, "Number")))>>]

\* var z = 1 < true; print "D";
P066 ==
    [family |-> "error",
     source |->
        <<"v", "a", "r", " ", "z", " ", "=", " ", "1", " ", "<", " ", "t", "r", "u",
        "e", ";", " ", "p", "r", "i", "n", "t", " ", "\"", "D", "\"", ";">>,
     want_out |-> <<>>,
     want_error |-> "Type",
     declarations |->
        <<VariableDeclaration(Token_new(4, 5, "Identifier"),
        BinaryExpression(LiteralNumber(Token_new(8, 9, "Number")),
        LiteralBoolean(Span_new(12, 16), TRUE), Token_new(10, 11, "Less"))),
        StatementDeclaration(PrintStatement(LiteralString(Token_new(24, 27,
        "String_"))))>>]

\* var a = 1; if (a == 1) { a = q; } else { print "D"; } var z = a; print "D";
P067 ==
    [family |-> "error",
     source |->
        <<"v", "a", "r", " ", "a", " ", "=", " ", "1", ";", " ", "i", "f", " ", "(",
        "a", " ", "=", "=", " ", "1", ")", " ", "{", " ", "a", " ", "=", " ", "q", ";",
        " ", "}", " ", "e", "l", "s", "e", " ", "{", " ", "p", "r", "i", "n", "t", " ",
        "\"", "D", "\"", ";", " ", "}", " ", "v", "a", "r", " ", "z", " ", "=", " ",
        "a", ";", " ", "p", "r", "i", "n", "t", " ", "\"", "D", "\"", ";">>,
     want_out |-> <<>>,
     want_error |-> "VariableDoesntExist",
     declarations |->
        <<VariableDeclaration(Token_new(4, 5, "Identifier"), LiteralNumber(Token_new(8,
        9, "Number"))),
        StatementDeclaration(IfStatement(BinaryExpression(VariableExpression(Token_new(15,
        16, "Identifier")), LiteralNumber(Token_new(20, 21, "Number")), Token_new(17,
        19, "EqualEqual")),
        BlockStatement(<<StatementDeclaration(ExpressionStatement(AssignmentExpression(Token_new(25,
        26, "Identifier"), VariableExpression(Token_new(29, 30, "Identifier")))))>>),
        BlockStatement(<<StatementDeclaration(PrintStatement(LiteralString(Token_new(47,
        50, "String_"))))>>))), VariableDeclaration(Token_new(58, 59, "Identifier"),
        VariableExpression(Token_new(62, 63, "Identifier"))),
        StatementDeclaration(PrintStatement(LiteralString(Token_new(71, 74,
        "String_"))))>>]

\* print 1; return 2; print "D"; var z = 1;
P068 ==
    [family |-> "toplevel_return",
     source |->
        <<"p", "r", "i", "n", "t", " ", "1", ";", " ", "r", "e", "t", "u", "r", "n",
        " ", "2", ";", " ", "p", "r", "i", "n", "t", " ", "\"", "D", "\"", ";", " ",
        "v", "a", "r", " ", "z", " ", "=", " ", "1", ";">>,
     want_out |-> <<<<"1">>>>,
     declarations |->
        <<StatementDeclaration(PrintStatement(LiteralNumber(Token_new(6, 7,
        "Number")))), StatementDeclaration(ReturnStatement(LiteralNumber(Token_new(16,
        17, "Number")))),
        StatementDeclaration(PrintStatement(LiteralString(Token_new(25, 28,
        "String_")))), VariableDeclaration(Token_new(34, 35, "Identifier"),
        LiteralNumber(Token_new(38, 39, "Number")))>>]

\* { print 1; { return 2; } print "D"; } print "D"; var z = 1;
P069 ==
    [family |-> "toplevel_return",
     source |->
        <<"{", " ", "p", "r", "i", "n", "t", " ", "1", ";", " ", "{", " ", "r", "e",
        "t", "u", "r", "n", " ", "2", ";", " ", "}", " ", "p", "r", "i", "n", "t", " ",
        "\"", "D", "\"", ";", " ", "}", " ", "p", "r", "i", "n", "t", " ", "\"", "D",
        "\"", ";", " ", "v", "a", "r", " ", "z", " ", "=", " ", "1", ";">>,
     want_out |-> <<<<"1">>>>,
     declarations |->
        <<StatementDeclaration(BlockStatement(<<StatementDeclaration(PrintStatement(LiteralNumber(Token_new(8,
        9, "Number")))),
        StatementDeclaration(BlockStatement(<<StatementDeclaration(ReturnStatement(LiteralNumber(Token_new(20,
        21, "Number"))))>>)),
        StatementDeclaration(PrintStatement(LiteralString(Token_new(31, 34,
        "String_"))))>>)),
        StatementDeclaration(PrintStatement(LiteralString(Token_new(44, 47,
        "String_")))), VariableDeclaration(Token_new(53, 54, "Identifier"),
        LiteralNumber(Token_new(57, 58, "Number")))>>]

\* var a = 1; while (true) { return a; } var z = 2;
P070 ==
    [family |-> "toplevel_return",
     source |->
        <<"v", "a", "r", " ", "a", " ", "=", " ", "1", ";", " ", "w", "h", "i", "l",
        "e", " ", "(", "t", "r", "u", "e", ")", " ", "{", " ", "r", "e", "t", "u", "r",
        "n", " ", "a", ";", " ", "}", " ", "v", "a", "r", " ", "z", " ", "=", " ", "2",
        ";">>,
     want_out |-> <<>>,
     declarations |->
        <<VariableDeclaration(Token_new(4, 5, "Identifier"), LiteralNumber(Token_new(8,
        9, "Number"))), StatementDeclaration(WhileStatement(LiteralBoolean(Span_new(18,
        22), TRUE),
        BlockStatement(<<StatementDeclaration(ReturnStatement(VariableExpression(Token_new(33,
        34, "Identifier"))))>>))), VariableDeclaration(Token_new(42, 43, "Identifier"),
        LiteralNumber(Token_new(46, 47, "Number")))>>]

\* if (true) return nil; print "D";
P071 ==
    [family |-> "toplevel_return",
     source |->
        <<"i", "f", " ", "(", "t", "r", "u", "e", ")", " ", "r", "e", "t", "u", "r",
        "n", " ", "n", "i", "l", ";", " ", "p", "r", "i", "n", "t", " ", "\"", "D",
        "\"", ";">>,
     want_out |-> <<>>,
     declarations |->
        <<StatementDeclaration(IfStatement(LiteralBoolean(Span_new(4, 8), TRUE),
        ReturnStatement(LiteralNil(Span_new(17, 20))), NoneNode)),
        StatementDeclaration(PrintStatement(LiteralString(Token_new(28, 31,
        "String_"))))>>]

\* return 1;
P072 ==
    [family |-> "toplevel_return",
     source |->
        <<"r", "e", "t", "u", "r", "n", " ", "1", ";">>,
     want_out |-> <<>>,
     declarations |->
        <<StatementDeclaration(ReturnStatement(LiteralNumber(Token_new(7, 8,
        "Number"))))>>]

\* fun f() { return 1; } print f(); return f(); print "D";
P073 ==
    [family |-> "toplevel_return",
     source |->
        <<"f", "u", "n", " ", "f", "(", ")", " ", "{", " ", "r", "e", "t", "u", "r",
        "n", " ", "1", ";", " ", "}", " ", "p", "r", "i", "n", "t", " ", "f", "(", ")",
        ";", " ", "r", "e", "t", "u", "r", "n", " ", "f", "(", ")", ";", " ", "p", "r",
        "i", "n", "t", " ", "\"", "D", "\"", ";">>,
     want_out |-> <<<<"1">>>>,
     declarations |->
        <<FunctionDeclaration(Token_new(4, 5, "Identifier"), <<>>,
        <<StatementDeclaration(ReturnStatement(LiteralNumber(Token_new(17, 18,
        "Number"))))>>),
        StatementDeclaration(PrintStatement(CallExpression(VariableExpression(Token_new(28,
        29, "Identifier")), Token_new(30, 31, "RightParen"), <<>>))),
        StatementDeclaration(ReturnStatement(CallExpression(VariableExpression(Token_new(40,
        41, "Identifier")), Token_new(42, 43, "RightParen"), <<>>))),
        StatementDeclaration(PrintStatement(LiteralString(Token_new(51, 54,
        "String_"))))>>]

\* print "a" + "b";
P074 ==
    [family |-> "plus",
     source |->
        <<"p", "r", "i", "n", "t", " ", "\"", "a", "\"", " ", "+", " ", "\"", "b",
        "\"", ";">>,
     ltype |-> "String",
     rtype |-> "String",
     coerced |-> <<<<"a", "b">>>>,
     declarations |->
        <<StatementDeclaration(PrintStatement(BinaryExpression(LiteralString(Token_new(6,
        9, "String_")), LiteralString(Token_new(12, 15, "String_")), Token_new(10, 11,
        "Plus"))))>>]

\* var l = "a"; var r = "b"; print l + r;
P075 ==
    [family |-> "plus",
     source |->
        <<"v", "a", "r", " ", "l", " ", "=", " ", "\"", "a", "\"", ";", " ", "v", "a",
        "r", " ", "r", " ", "=", " ", "\"", "b", "\"", ";", " ", "p", "r", "i", "n",
        "t", " ", "l", " ", "+", " ", "r", ";">>,
     ltype |-> "String",
     rtype |-> "String",
     coerced |-> <<<<"a", "b">>>>,
     declarations |->
        <<VariableDeclaration(Token_new(4, 5, "Identifier"), LiteralString(Token_new(8,
        11, "String_"))), VariableDeclaration(Token_new(17, 18, "Identifier"),
        LiteralString(Token_new(21, 24, "String_"))),
        StatementDeclaration(PrintStatement(BinaryExpression(VariableExpression(Token_new(32,
        33, "Identifier")), VariableExpression(Token_new(36, 37, "Identifier")),
        Token_new(34, 35, "Plus"))))>>]

\* print "a" + 2;
P076 ==
    [family |-> "plus",
     source |->
        <<"p", "r", "i", "n", "t", " ", "\"", "a", "\"", " ", "+", " ", "2", ";">>,
     ltype |-> "String",
     rtype |-> "Number",
     coerced |-> <<<<"a", "2">>>>,
     declarations |->
        <<StatementDeclaration(PrintStatement(BinaryExpression(LiteralString(Token_new(6,
        9, "String_")), LiteralNumber(Token_new(12, 13, "Number")), Token_new(10, 11,
        "Plus"))))>>]

\* var l = "a"; var r = 2; print l + r;
P077 ==
    [family |-> "plus",
     source |->
        <<"v", "a", "r", " ", "l", " ", "=", " ", "\"", "a", "\"", ";", " ", "v", "a",
        "r", " ", "r", " ", "=", " ", "2", ";", " ", "p", "r", "i", "n", "t", " ", "l",
        " ", "+", " ", "r", ";">>,
     ltype |-> "String",
     rtype |-> "Number",
     coerced |-> <<<<"a", "2">>>>,
     declarations |->
        <<VariableDeclaration(Token_new(4, 5, "Identifier"), LiteralString(Token_new(8,
        11, "String_"))), VariableDeclaration(Token_new(17, 18, "Identifier"),
        LiteralNumber(Token_new(21, 22, "Number"))),
        StatementDeclaration(PrintStatement(BinaryExpression(VariableExpression(Token_new(30,
        31, "Identifier")), VariableExpression(Token_new(34, 35, "Identifier")),
        Token_new(32, 33, "Plus"))))>>]

\* print "a" + true;
P078 ==
    [family |-> "plus",
     source |->
        <<"p", "r", "i", "n", "t", " ", "\"", "a", "\"", " ", "+", " ", "t", "r", "u",
        "e", ";">>,
     ltype |-> "String",
     rtype |-> "Boolean",
     coerced |-> <<<<"a", "t", "r", "u", "e">>>>,
     declarations |->
        <<StatementDeclaration(PrintStatement(BinaryExpression(LiteralString(Token_new(6,
        9, "String_")), LiteralBoolean(Span_new(12, 16), TRUE), Token_new(10, 11,
        "Plus"))))>>]

\* var l = "a"; var r = true; print l + r;
P079 ==
    [family |-> "plus",
     source |->
        <<"v", "a", "r", " ", "l", " ", "=", " ", "\"", "a", "\"", ";", " ", "v", "a",
        "r", " ", "r", " ", "=", " ", "t", "r", "u", "e", ";", " ", "p", "r", "i", "n",
        "t", " ", "l", " ", "+", " ", "r", ";">>,
     ltype |-> "String",
     rtype |-> "Boolean",
     coerced |-> <<<<"a", "t", "r", "u", "e">>>>,
     declarations |->
        <<VariableDeclaration(Token_new(4, 5, "Identifier"), LiteralString(Token_new(8,
        11, "String_"))), VariableDeclaration(Token_new(17, 18, "Identifier"),
        LiteralBoolean(Span_new(21, 25), TRUE)),
        StatementDeclaration(PrintStatement(BinaryExpression(VariableExpression(Token_new(33,
        34, "Identifier")), VariableExpression(Token_new(37, 38, "Identifier")),
        Token_new(35, 36, "Plus"))))>>]

\* print "a" + nil;
P080 ==
    [family |-> "plus",
     source |->
        <<"p", "r", "i", "n", "t", " ", "\"", "a", "\"", " ", "+", " ", "n", "i", "l",
        ";">>,
     ltype |-> "String",
     rtype |-> "Nil",
     coerced |-> <<<<"a", "n", "i", "l">>>>,
     declarations |->
        <<StatementDeclaration(PrintStatement(BinaryExpression(LiteralString(Token_new(6,
        9, "String_")), LiteralNil(Span_new(12, 15)), Token_new(10, 11, "Plus"))))>>]

\* var l = "a"; var r = nil; print l + r;
P081 ==
    [family |-> "plus",
     source |->
        <<"v", "a", "r", " ", "l", " ", "=", " ", "\"", "a", "\"", ";", " ", "v", "a",
        "r", " ", "r", " ", "=", " ", "n", "i", "l", ";", " ", "p", "r", "i", "n", "t",
        " ", "l", " ", "+", " ", "r", ";">>,
     ltype |-> "String",
     rtype |-> "Nil",
     coerced |-> <<<<"a", "n", "i", "l">>>>,
     declarations |->
        <<VariableDeclaration(Token_new(4, 5, "Identifier"), LiteralString(Token_new(8,
        11, "String_"))), VariableDeclaration(Token_new(17, 18, "Identifier"),
        LiteralNil(Span_new(21, 24))),
        StatementDeclaration(PrintStatement(BinaryExpression(VariableExpression(Token_new(32,
        33, "Identifier")), VariableExpression(Token_new(36, 37, "Identifier")),
        Token_new(34, 35, "Plus"))))>>]

\* print "" + "b";
P082 ==
    [family |-> "plus",
     source |->
        <<"p", "r", "i", "n", "t", " ", "\"", "\"", " ", "+", " ", "\"", "b", "\"",
        ";">>,
     ltype |-> "String",
     rtype |-> "String",
     coerced |-> <<<<"b">>>>,
     declarations |->
        <<StatementDeclaration(PrintStatement(BinaryExpression(LiteralString(Token_new(6,
        8, "String_")), LiteralString(Token_new(11, 14, "String_")), Token_new(9, 10,
        "Plus"))))>>]

\* var l = ""; var r = "b"; print l + r;
P083 ==
    [family |-> "plus",
     source |->
        <<"v", "a", "r", " ", "l", " ", "=", " ", "\"", "\"", ";", " ", "v", "a", "r",
        " ", "r", " ", "=", " ", "\"", "b", "\"", ";", " ", "p", "r", "i", "n", "t",
        " ", "l", " ", "+", " ", "r", ";">>,
     ltype |-> "String",
     rtype |-> "String",
     coerced |-> <<<<"b">>>>,
     declarations |->
        <<VariableDeclaration(Token_new(4, 5, "Identifier"), LiteralString(Token_new(8,
        10, "String_"))), VariableDeclaration(Token_new(16, 17, "Identifier"),
        LiteralString(Token_new(20, 23, "String_"))),
        StatementDeclaration(PrintStatement(BinaryExpression(VariableExpression(Token_new(31,
        32, "Identifier")), VariableExpression(Token_new(35, 36, "Identifier")),
        Token_new(33, 34, "Plus"))))>>]

\* print "" + 2;
P084 ==
    [family |-> "plus",
     source |->
        <<"p", "r", "i", "n", "t", " ", "\"", "\"", " ", "+", " ", "2", ";">>,
     ltype |-> "String",
     rtype |-> "Number",
     coerced |-> <<<<"2">>>>,
     declarations |->
        <<StatementDeclaration(PrintStatement(BinaryExpression(LiteralString(Token_new(6,
        8, "String_")), LiteralNumber(Token_new(11, 12, "Number")), Token_new(9, 10,
        "Plus"))))>>]

\* var l = ""; var r = 2; print l + r;
P085 ==
    [family |-> "plus",
     source |->
        <<"v", "a", "r", " ", "l", " ", "=", " ", "\"", "\"", ";", " ", "v", "a", "r",
        " ", "r", " ", "=", " ", "2", ";", " ", "p", "r", "i", "n", "t", " ", "l", " ",
        "+", " ", "r", ";">>,
     ltype |-> "String",
     rtype |-> "Number",
     coerced |-> <<<<"2">>>>,
     declarations |->
        <<VariableDeclaration(Token_new(4, 5, "Identifier"), LiteralString(Token_new(8,
        10, "String_"))), VariableDeclaration(Token_new(16, 17, "Identifier"),
        LiteralNumber(Token_new(20, 21, "Number"))),
        StatementDeclaration(PrintStatement(BinaryExpression(VariableExpression(Token_new(29,
        30, "Identifier")), VariableExpression(Token_new(33, 34, "Identifier")),
        Token_new(31, 32, "Plus"))))>>]

\* print "" + true;
P086 ==
    [family |-> "plus",
     source |->
        <<"p", "r", "i", "n", "t", " ", "\"", "\"", " ", "+", " ", "t", "r", "u", "e",
        ";">>,
     ltype |-> "String",
     rtype |-> "Boolean",
     coerced |-> <<<<"t", "r", "u", "e">>>>,
     declarations |->
        <<StatementDeclaration(PrintStatement(BinaryExpression(LiteralString(Token_new(6,
        8, "String_")), LiteralBoolean(Span_new(11, 15), TRUE), Token_new(9, 10,
        "Plus"))))>>]

\* var l = ""; var r = true; print l + r;
P087 ==
    [family |-> "plus",
     source |->
        <<"v", "a", "r", " ", "l", " ", "=", " ", "\"", "\"", ";", " ", "v", "a", "r",
        " ", "r", " ", "=", " ", "t", "r", "u", "e", ";", " ", "p", "r", "i", "n", "t",
        " ", "l", " ", "+", " ", "r", ";">>,
     ltype |-> "String",
     rtype |-> "Boolean",
     coerced |-> <<<<"t", "r", "u", "e">>>>,
     declarations |->
        <<VariableDeclaration(Token_new(4, 5, "Identifier"), LiteralString(Token_new(8,
        10, "String_"))), VariableDeclaration(Token_new(16, 17, "Identifier"),
        LiteralBoolean(Span_new(20, 24), TRUE)),
        StatementDeclaration(PrintStatement(BinaryExpression(VariableExpression(Token_new(32,
        33, "Identifier")), VariableExpression(Token_new(36, 37, "Identifier")),
        Token_new(34, 35, "Plus"))))>>]

\* print "" + nil;
P088 ==
    [family |-> "plus",
     source |->
        <<"p", "r", "i", "n", "t", " ", "\"", "\"", " ", "+", " ", "n", "i", "l", ";">>,
     ltype |-> "String",
     rtype |-> "Nil",
     coerced |-> <<<<"n", "i", "l">>>>,
     declarations |->
        <<StatementDeclaration(PrintStatement(BinaryExpression(LiteralString(Token_new(6,
        8, "String_")), LiteralNil(Span_new(11, 14)), Token_new(9, 10, "Plus"))))>>]

\* var l = ""; var r = nil; print l + r;
P089 ==
    [family |-> "plus",
     source |->
        <<"v", "a", "r", " ", "l", " ", "=", " ", "\"", "\"", ";", " ", "v", "a", "r",
        " ", "r", " ", "=", " ", "n", "i", "l", ";", " ", "p", "r", "i", "n", "t", " ",
        "l", " ", "+", " ", "r", ";">>,
     ltype |-> "String",
     rtype |-> "Nil",
     coerced |-> <<<<"n", "i", "l">>>>,
     declarations |->
        <<VariableDeclaration(Token_new(4, 5, "Identifier"), LiteralString(Token_new(8,
        10, "String_"))), VariableDeclaration(Token_new(16, 17, "Identifier"),
        LiteralNil(Span_new(20, 23))),
        StatementDeclaration(PrintStatement(BinaryExpression(VariableExpression(Token_new(31,
        32, "Identifier")), VariableExpression(Token_new(35, 36, "Identifier")),
        Token_new(33, 34, "Plus"))))>>]

\* print 1 + "b";
P090 ==
    [family |-> "plus",
     source |->
        <<"p", "r", "i", "n", "t", " ", "1", " ", "+", " ", "\"", "b", "\"", ";">>,
     ltype |-> "Number",
     rtype |-> "String",
     coerced |-> <<>>,
     declarations |->
        <<StatementDeclaration(PrintStatement(BinaryExpression(LiteralNumber(Token_new(6,
        7, "Number")), LiteralString(Token_new(10, 13, "String_")), Token_new(8, 9,
        "Plus"))))>>]

\* var l = 1; var r = "b"; print l + r;
P091 ==
    [family |-> "plus",
     source |->
        <<"v", "a", "r", " ", "l", " ", "=", " ", "1", ";", " ", "v", "a", "r", " ",
        "r", " ", "=", " ", "\"", "b", "\"", ";", " ", "p", "r", "i", "n", "t", " ",
        "l", " ", "+", " ", "r", ";">>,
     ltype |-> "Number",
     rtype |-> "String",
     coerced |-> <<>>,
     declarations |->
        <<VariableDeclaration(Token_new(4, 5, "Identifier"), LiteralNumber(Token_new(8,
        9, "Number"))), VariableDeclaration(Token_new(15, 16, "Identifier"),
        LiteralString(Token_new(19, 22, "String_"))),
        StatementDeclaration(PrintStatement(BinaryExpression(VariableExpression(Token_new(30,
        31, "Identifier")), VariableExpression(Token_new(34, 35, "Identifier")),
        Token_new(32, 33, "Plus"))))>>]

\* print 1 + 2;
P092 ==
    [family |-> "plus",
     source |->
        <<"p", "r", "i", "n", "t", " ", "1", " ", "+", " ", "2", ";">>,
     ltype |-> "Number",
     rtype |-> "Number",
     coerced |-> <<<<"3">>>>,
     declarations |->
        <<StatementDeclaration(PrintStatement(BinaryExpression(LiteralNumber(Token_new(6,
        7, "Number")), LiteralNumber(Token_new(10, 11, "Number")), Token_new(8, 9,
        "Plus"))))>>]

\* var l = 1; var r = 2; print l + r;
P093 ==
    [family |-> "plus",
     source |->
        <<"v", "a", "r", " ", "l", " ", "=", " ", "1", ";", " ", "v", "a", "r", " ",
        "r", " ", "=", " ", "2", ";", " ", "p", "r", "i", "n", "t", " ", "l", " ", "+",
        " ", "r", ";">>,
     ltype |-> "Number",
     rtype |-> "Number",
     coerced |-> <<<<"3">>>>,
     declarations |->
        <<VariableDeclaration(Token_new(4, 5, "Identifier"), LiteralNumber(Token_new(8,
        9, "Number"))), VariableDeclaration(Token_new(15, 16, "Identifier"),
        LiteralNumber(Token_new(19, 20, "Number"))),
        StatementDeclaration(PrintStatement(BinaryExpression(VariableExpression(Token_new(28,
        29, "Identifier")), VariableExpression(Token_new(32, 33, "Identifier")),
        Token_new(30, 31, "Plus"))))>>]

\* print 1 + true;
P094 ==
    [family |-> "plus",
     source |->
        <<"p", "r", "i", "n", "t", " ", "1", " ", "+", " ", "t", "r", "u", "e", ";">>,
     ltype |-> "Number",
     rtype |-> "Boolean",
     coerced |-> <<>>,
     declarations |->
        <<StatementDeclaration(PrintStatement(BinaryExpression(LiteralNumber(Token_new(6,
        7, "Number")), LiteralBoolean(Span_new(10, 14), TRUE), Token_new(8, 9,
        "Plus"))))>>]

\* var l = 1; var r = true; print l + r;
P095 ==
    [family |-> "plus",
     source |->
        <<"v", "a", "r", " ", "l", " ", "=", " ", "1", ";", " ", "v", "a", "r", " ",
        "r", " ", "=", " ", "t", "r", "u", "e", ";", " ", "p", "r", "i", "n", "t", " ",
        "l", " ", "+", " ", "r", ";">>,
     ltype |-> "Number",
     rtype |-> "Boolean",
     coerced |-> <<>>,
     declarations |->
        <<VariableDeclaration(Token_new(4, 5, "Identifier"), LiteralNumber(Token_new(8,
        9, "Number"))), VariableDeclaration(Token_new(15, 16, "Identifier"),
        LiteralBoolean(Span_new(19, 23), TRUE)),
        StatementDeclaration(PrintStatement(BinaryExpression(VariableExpression(Token_new(31,
        32, "Identifier")), VariableExpression(Token_new(35, 36, "Identifier")),
        Token_new(33, 34, "Plus"))))>>]

\* print 1 + nil;
P096 ==
    [family |-> "plus",
     source |->
        <<"p", "r", "i", "n", "t", " ", "1", " ", "+", " ", "n", "i", "l", ";">>,
     ltype |-> "Number",
     rtype |-> "Nil",
     coerced |-> <<>>,
     declarations |->
        <<StatementDeclaration(PrintStatement(BinaryExpression(LiteralNumber(Token_new(6,
        7, "Number")), LiteralNil(Span_new(10, 13)), Token_new(8, 9, "Plus"))))>>]

\* var l = 1; var r = nil; print l + r;
P097 ==
    [family |-> "plus",
     source |->
        <<"v", "a", "r", " ", "l", " ", "=", " ", "1", ";", " ", "v", "a", "r", " ",
        "r", " ", "=", " ", "n", "i", "l", ";", " ", "p", "r", "i", "n", "t", " ", "l",
        " ", "+", " ", "r", ";">>,
     ltype |-> "Number",
     rtype |-> "Nil",
     coerced |-> <<>>,
     declarations |->
        <<VariableDeclaration(Token_new(4, 5, "Identifier"), LiteralNumber(Token_new(8,
        9, "Number"))), VariableDeclaration(Token_new(15, 16, "Identifier"),
        LiteralNil(Span_new(19, 22))),
        StatementDeclaration(PrintStatement(BinaryExpression(VariableExpression(Token_new(30,
        31, "Identifier")), VariableExpression(Token_new(34, 35, "Identifier")),
        Token_new(32, 33, "Plus"))))>>]

\* print 12 + "b";
P098 ==
    [family |-> "plus",
     source |->
        <<"p", "r", "i", "n", "t", " ", "1", "2", " ", "+", " ", "\"", "b", "\"", ";">>,
     ltype |-> "Number",
     rtype |-> "String",
     coerced |-> <<>>,
     declarations |->
        <<StatementDeclaration(PrintStatement(BinaryExpression(LiteralNumber(Token_new(6,
        8, "Number")), LiteralString(Token_new(11, 14, "String_")), Token_new(9, 10,
        "Plus"))))>>]

\* var l = 12; var r = "b"; print l + r;
P099 ==
    [family |-> "plus",
     source |->
        <<"v", "a", "r", " ", "l", " ", "=", " ", "1", "2", ";", " ", "v", "a", "r",
        " ", "r", " ", "=", " ", "\"", "b", "\"", ";", " ", "p", "r", "i", "n", "t",
        " ", "l", " ", "+", " ", "r", ";">>,
     ltype |-> "Number",
     rtype |-> "String",
     coerced |-> <<>>,
     declarations |->
        <<VariableDeclaration(Token_new(4, 5, "Identifier"), LiteralNumber(Token_new(8,
        10, "Number"))), VariableDeclaration(Token_new(16, 17, "Identifier"),
        LiteralString(Token_new(20, 23, "String_"))),
        StatementDeclaration(PrintStatement(BinaryExpression(VariableExpression(Token_new(31,
        32, "Identifier")), VariableExpression(Token_new(35, 36, "Identifier")),
        Token_new(33, 34, "Plus"))))>>]

\* print 12 + 2;
P100 ==
    [family |-> "plus",
     source |->
        <<"p", "r", "i", "n", "t", " ", "1", "2", " ", "+", " ", "2", ";">>,
     ltype |-> "Number",
     rtype |-> "Number",
     coerced |-> <<<<"1", "4">>>>,
     declarations |->
        <<StatementDeclaration(PrintStatement(BinaryExpression(LiteralNumber(Token_new(6,
        8, "Number")), LiteralNumber(Token_new(11, 12, "Number")), Token_new(9, 10,
        "Plus"))))>>]

\* var l = 12; var r = 2; print l + r;
P101 ==
    [family |-> "plus",
     source |->
        <<"v", "a", "r", " ", "l", " ", "=", " ", "1", "2", ";", " ", "v", "a", "r",
        " ", "r", " ", "=", " ", "2", ";", " ", "p", "r", "i", "n", "t", " ", "l", " ",
        "+", " ", "r", ";">>,
     ltype |-> "Number",
     rtype |-> "Number",
     coerced |-> <<<<"1", "4">>>>,
     declarations |->
        <<VariableDeclaration(Token_new(4, 5, "Identifier"), LiteralNumber(Token_new(8,
        10, "Number"))), VariableDeclaration(Token_new(16, 17, "Identifier"),
        LiteralNumber(Token_new(20, 21, "Number"))),
        StatementDeclaration(PrintStatement(BinaryExpression(VariableExpression(Token_new(29,
        30, "Identifier")), VariableExpression(Token_new(33, 34, "Identifier")),
        Token_new(31, 32, "Plus"))))>>]

\* print 12 + true;
P102 ==
    [family |-> "plus",
     source |->
        <<"p", "r", "i", "n", "t", " ", "1", "2", " ", "+", " ", "t", "r", "u", "e",
        ";">>,
     ltype |-> "Number",
     rtype |-> "Boolean",
     coerced |-> <<>>,
     declarations |->
        <<StatementDeclaration(PrintStatement(BinaryExpression(LiteralNumber(Token_new(6,
        8, "Number")), LiteralBoolean(Span_new(11, 15), TRUE), Token_new(9, 10,
        "Plus"))))>>]

\* var l = 12; var r = true; print l + r;
P103 ==
    [family |-> "plus",
     source |->
        <<"v", "a", "r", " ", "l", " ", "=", " ", "1", "2", ";", " ", "v", "a", "r",
        " ", "r", " ", "=", " ", "t", "r", "u", "e", ";", " ", "p", "r", "i", "n", "t",
        " ", "l", " ", "+", " ", "r", ";">>,
     ltype |-> "Number",
     rtype |-> "Boolean",
     coerced |-> <<>>,
     declarations |->
        <<VariableDeclaration(Token_new(4, 5, "Identifier"), LiteralNumber(Token_new(8,
        10, "Number"))), VariableDeclaration(Token_new(16, 17, "Identifier"),
        LiteralBoolean(Span_new(20, 24), TRUE)),
        StatementDeclaration(PrintStatement(BinaryExpression(VariableExpression(Token_new(32,
        33, "Identifier")), VariableExpression(Token_new(36, 37, "Identifier")),
        Token_new(34, 35, "Plus"))))>>]

\* print 12 + nil;
P104 ==
    [family |-> "plus",
     source |->
        <<"p", "r", "i", "n", "t", " ", "1", "2", " ", "+", " ", "n", "i", "l", ";">>,
     ltype |-> "Number",
     rtype |-> "Nil",
     coerced |-> <<>>,
     declarations |->
        <<StatementDeclaration(PrintStatement(BinaryExpression(LiteralNumber(Token_new(6,
        8, "Number")), LiteralNil(Span_new(11, 14)), Token_new(9, 10, "Plus"))))>>]

\* var l = 12; var r = nil; print l + r;
P105 ==
    [family |-> "plus",
     source |->
        <<"v", "a", "r", " ", "l", " ", "=", " ", "1", "2", ";", " ", "v", "a", "r",
        " ", "r", " ", "=", " ", "n", "i", "l", ";", " ", "p", "r", "i", "n", "t", " ",
        "l", " ", "+", " ", "r", ";">>,
     ltype |-> "Number",
     rtype |-> "Nil",
     coerced |-> <<>>,
     declarations |->
        <<VariableDeclaration(Token_new(4, 5, "Identifier"), LiteralNumber(Token_new(8,
        10, "Number"))), VariableDeclaration(Token_new(16, 17, "Identifier"),
        LiteralNil(Span_new(20, 23))),
        StatementDeclaration(PrintStatement(BinaryExpression(VariableExpression(Token_new(31,
        32, "Identifier")), VariableExpression(Token_new(35, 36, "Identifier")),
        Token_new(33, 34, "Plus"))))>>]

\* fun f() {} "s" - 1;
P106 ==
    [family |-> "number_only",
     source |->
        <<"f", "u", "n", " ", "f", "(", ")", " ", "{", "}", " ", "\"", "s", "\"", " ",
        "-", " ", "1", ";">>,
     operand_type |-> "String",
     operand_span |-> Span_new(11, 14),
     declarations |->
        <<FunctionDeclaration(Token_new(4, 5, "Identifier"), <<>>, <<>>),
        StatementDeclaration(ExpressionStatement(BinaryExpression(LiteralString(Token_new(11,
        14, "String_")), LiteralNumber(Token_new(17, 18, "Number")), Token_new(15, 16,
        "Minus"))))>>]

\* fun f() {} 1 - "s";
P107 ==
    [family |-> "number_only",
     source |->
        <<"f", "u", "n", " ", "f", "(", ")", " ", "{", "}", " ", "1", " ", "-", " ",
        "\"", "s", "\"", ";">>,
     operand_type |-> "String",
     operand_span |-> Span_new(15, 18),
     declarations |->
        <<FunctionDeclaration(Token_new(4, 5, "Identifier"), <<>>, <<>>),
        StatementDeclaration(ExpressionStatement(BinaryExpression(LiteralNumber(Token_new(11,
        12, "Number")), LiteralString(Token_new(15, 18, "String_")), Token_new(13, 14,
        "Minus"))))>>]

\* fun f() {} true - 1;
P108 ==
    [family |-> "number_only",
     source |->
        <<"f", "u", "n", " ", "f", "(", ")", " ", "{", "}", " ", "t", "r", "u", "e",
        " ", "-", " ", "1", ";">>,
     operand_type |-> "Boolean",
     operand_span |-> Span_new(11, 15),
     declarations |->
        <<FunctionDeclaration(Token_new(4, 5, "Identifier"), <<>>, <<>>),
        StatementDeclaration(ExpressionStatement(BinaryExpression(LiteralBoolean(Span_new(11,
        15), TRUE), LiteralNumber(Token_new(18, 19, "Number")), Token_new(16, 17,
        "Minus"))))>>]

\* fun f() {} 1 - true;
P109 ==
    [family |-> "number_only",
     source |->
        <<"f", "u", "n", " ", "f", "(", ")", " ", "{", "}", " ", "1", " ", "-", " ",
        "t", "r", "u", "e", ";">>,
     operand_type |-> "Boolean",
     operand_span |-> Span_new(15, 19),
     declarations |->
        <<FunctionDeclaration(Token_new(4, 5, "Identifier"), <<>>, <<>>),
        StatementDeclaration(ExpressionStatement(BinaryExpression(LiteralNumber(Token_new(11,
        12, "Number")), LiteralBoolean(Span_new(15, 19), TRUE), Token_new(13, 14,
        "Minus"))))>>]

\* fun f() {} nil - 1;
P110 ==
    [family |-> "number_only",
     source |->
        <<"f", "u", "n", " ", "f", "(", ")", " ", "{", "}", " ", "n", "i", "l", " ",
        "-", " ", "1", ";">>,
     operand_type |-> "Nil",
     operand_span |-> Span_new(11, 14),
     declarations |->
        <<FunctionDeclaration(Token_new(4, 5, "Identifier"), <<>>, <<>>),
        StatementDeclaration(ExpressionStatement(BinaryExpression(LiteralNil(Span_new(11,
        14)), LiteralNumber(Token_new(17, 18, "Number")), Token_new(15, 16,
        "Minus"))))>>]

\* fun f() {} 1 - nil;
P111 ==
    [family |-> "number_only",
     source |->
        <<"f", "u", "n", " ", "f", "(", ")", " ", "{", "}", " ", "1", " ", "-", " ",
        "n", "i", "l", ";">>,
     operand_type |-> "Nil",
     operand_span |-> Span_new(15, 18),
     declarations |->
        <<FunctionDeclaration(Token_new(4, 5, "Identifier"), <<>>, <<>>),
        StatementDeclaration(ExpressionStatement(BinaryExpression(LiteralNumber(Token_new(11,
        12, "Number")), LiteralNil(Span_new(15, 18)), Token_new(13, 14, "Minus"))))>>]

\* fun f() {} f - 1;
P112 ==
    [family |-> "number_only",
     source |->
        <<"f", "u", "n", " ", "f", "(", ")", " ", "{", "}", " ", "f", " ", "-", " ",
        "1", ";">>,
     operand_type |-> "Callable",
     operand_span |-> Span_new(11, 12),
     declarations |->
        <<FunctionDeclaration(Token_new(4, 5, "Identifier"), <<>>, <<>>),
        StatementDeclaration(ExpressionStatement(BinaryExpression(VariableExpression(Token_new(11,
        12, "Identifier")), LiteralNumber(Token_new(15, 16, "Number")), Token_new(13,
        14, "Minus"))))>>]

\* fun f() {} 1 - f;
P113 ==
    [family |-> "number_only",
     source |->
        <<"f", "u", "n", " ", "f", "(", ")", " ", "{", "}", " ", "1", " ", "-", " ",
        "f", ";">>,
     operand_type |-> "Callable",
     operand_span |-> Span_new(15, 16),
     declarations |->
        <<FunctionDeclaration(Token_new(4, 5, "Identifier"), <<>>, <<>>),
        StatementDeclaration(ExpressionStatement(BinaryExpression(LiteralNumber(Token_new(11,
        12, "Number")), VariableExpression(Token_new(15, 16, "Identifier")),
        Token_new(13, 14, "Minus"))))>>]

\* fun f() {} "s" / 1;
P114 ==
    [family |-> "number_only",
     source |->
        <<"f", "u", "n", " ", "f", "(", ")", " ", "{", "}", " ", "\"", "s", "\"", " ",
        "/", " ", "1", ";">>,
     operand_type |-> "String",
     operand_span |-> Span_new(11, 14),
     declarations |->
        <<FunctionDeclaration(Token_new(4, 5, "Identifier"), <<>>, <<>>),
        StatementDeclaration(ExpressionStatement(BinaryExpression(LiteralString(Token_new(11,
        14, "String_")), LiteralNumber(Token_new(17, 18, "Number")), Token_new(15, 16,
        "Slash"))))>>]

\* fun f() {} 1 / "s";
P115 ==
    [family |-> "number_only",
     source |->
        <<"f", "u", "n", " ", "f", "(", ")", " ", "{", "}", " ", "1", " ", "/", " ",
        "\"", "s", "\"", ";">>,
     operand_type |-> "String",
     operand_span |-> Span_new(15, 18),
     declarations |->
        <<FunctionDeclaration(Token_new(4, 5, "Identifier"), <<>>, <<>>),
        StatementDeclaration(ExpressionStatement(BinaryExpression(LiteralNumber(Token_new(11,
        12, "Number")), LiteralString(Token_new(15, 18, "String_")), Token_new(13, 14,
        "Slash"))))>>]

\* fun f() {} true / 1;
P116 ==
    [family |-> "number_only",
     source |->
        <<"f", "u", "n", " ", "f", "(", ")", " ", "{", "}", " ", "t", "r", "u", "e",
        " ", "/", " ", "1", ";">>,
     operand_type |-> "Boolean",
     operand_span |-> Span_new(11, 15),
     declarations |->
        <<FunctionDeclaration(Token_new(4, 5, "Identifier"), <<>>, <<>>),
        StatementDeclaration(ExpressionStatement(BinaryExpression(LiteralBoolean(Span_new(11,
        15), TRUE), LiteralNumber(Token_new(18, 19, "Number")), Token_new(16, 17,
        "Slash"))))>>]

\* fun f() {} 1 / true;
P117 ==
    [family |-> "number_only",
     source |->
        <<"f", "u", "n", " ", "f", "(", ")", " ", "{", "}", " ", "1", " ", "/", " ",
        "t", "r", "u", "e", ";">>,
     operand_type |-> "Boolean",
     operand_span |-> Span_new(15, 19),
     declarations |->
        <<FunctionDeclaration(Token_new(4, 5, "Identifier"), <<>>, <<>>),
        StatementDeclaration(ExpressionStatement(BinaryExpression(LiteralNumber(Token_new(11,
        12, "Number")), LiteralBoolean(Span_new(15, 19), TRUE), Token_new(13, 14,
        "Slash"))))>>]

\* fun f() {} nil / 1;
P118 ==
    [family |-> "number_only",
     source |->
        <<"f", "u", "n", " ", "f", "(", ")", " ", "{", "}", " ", "n", "i", "l", " ",
        "/", " ", "1", ";">>,
     operand_type |-> "Nil",
     operand_span |-> Span_new(11, 14),
     declarations |->
        <<FunctionDeclaration(Token_new(4, 5, "Identifier"), <<>>, <<>>),
        StatementDeclaration(ExpressionStatement(BinaryExpression(LiteralNil(Span_new(11,
        14)), LiteralNumber(Token_new(17, 18, "Number")), Token_new(15, 16,
        "Slash"))))>>]

\* fun f() {} 1 / nil;
P119 ==
    [family |-> "number_only",
     source |->
        <<"f", "u", "n", " ", "f", "(", ")", " ", "{", "}", " ", "1", " ", "/", " ",
        "n", "i", "l", ";">>,
     operand_type |-> "Nil",
     operand_span |-> Span_new(15, 18),
     declarations |->
        <<FunctionDeclaration(Token_new(4, 5, "Identifier"), <<>>, <<>>),
        StatementDeclaration(ExpressionStatement(BinaryExpression(LiteralNumber(Token_new(11,
        12, "Number")), LiteralNil(Span_new(15, 18)), Token_new(13, 14, "Slash"))))>>]

\* fun f() {} f / 1;
P120 ==
    [family |-> "number_only",
     source |->
        <<"f", "u", "n", " ", "f", "(", ")", " ", "{", "}", " ", "f", " ", "/", " ",
        "1", ";">>,
     operand_type |-> "Callable",
     operand_span |-> Span_new(11, 12),
     declarations |->
        <<FunctionDeclaration(Token_new(4, 5, "Identifier"), <<>>, <<>>),
        StatementDeclaration(ExpressionStatement(BinaryExpression(VariableExpression(Token_new(11,
        12, "Identifier")), LiteralNumber(Token_new(15, 16, "Number")), Token_new(13,
        14, "Slash"))))>>]

\* fun f() {} 1 / f;
P121 ==
    [family |-> "number_only",
     source |->
        <<"f", "u", "n", " ", "f", "(", ")", " ", "{", "}", " ", "1", " ", "/", " ",
        "f", ";">>,
     operand_type |-> "Callable",
     operand_span |-> Span_new(15, 16),
     declarations |->
        <<FunctionDeclaration(Token_new(4, 5, "Identifier"), <<>>, <<>>),
        StatementDeclaration(ExpressionStatement(BinaryExpression(LiteralNumber(Token_new(11,
        12, "Number")), VariableExpression(Token_new(15, 16, "Identifier")),
        Token_new(13, 14, "Slash"))))>>]

\* fun f() {} "s" * 1;
P122 ==
    [family |-> "number_only",
     source |->
        <<"f", "u", "n", " ", "f", "(", ")", " ", "{", "}", " ", "\"", "s", "\"", " ",
        "*", " ", "1", ";">>,
     operand_type |-> "String",
     operand_span |-> Span_new(11, 14),
     declarations |->
        <<FunctionDeclaration(Token_new(4, 5, "Identifier"), <<>>, <<>>),
        StatementDeclaration(ExpressionStatement(BinaryExpression(LiteralString(Token_new(11,
        14, "String_")), LiteralNumber(Token_new(17, 18, "Number")), Token_new(15, 16,
        "Star"))))>>]

\* fun f() {} 1 * "s";
P123 ==
    [family |-> "number_only",
     source |->
        <<"f", "u", "n", " ", "f", "(", ")", " ", "{", "}", " ", "1", " ", "*", " ",
        "\"", "s", "\"", ";">>,
     operand_type |-> "String",
     operand_span |-> Span_new(15, 18),
     declarations |->
        <<FunctionDeclaration(Token_new(4, 5, "Identifier"), <<>>, <<>>),
        StatementDeclaration(ExpressionStatement(BinaryExpression(LiteralNumber(Token_new(11,
        12, "Number")), LiteralString(Token_new(15, 18, "String_")), Token_new(13, 14,
        "Star"))))>>]

\* fun f() {} true * 1;
P124 ==
    [family |-> "number_only",
     source |->
        <<"f", "u", "n", " ", "f", "(", ")", " ", "{", "}", " ", "t", "r", "u", "e",
        " ", "*", " ", "1", ";">>,
     operand_type |-> "Boolean",
     operand_span |-> Span_new(11, 15),
     declarations |->
        <<FunctionDeclaration(Token_new(4, 5, "Identifier"), <<>>, <<>>),
        StatementDeclaration(ExpressionStatement(BinaryExpression(LiteralBoolean(Span_new(11,
        15), TRUE), LiteralNumber(Token_new(18, 19, "Number")), Token_new(16, 17,
        "Star"))))>>]

\* fun f() {} 1 * true;
P125 ==
    [family |-> "number_only",
     source |->
        <<"f", "u", "n", " ", "f", "(", ")", " ", "{", "}", " ", "1", " ", "*", " ",
        "t", "r", "u", "e", ";">>,
     operand_type |-> "Boolean",
     operand_span |-> Span_new(15, 19),
     declarations |->
        <<FunctionDeclaration(Token_new(4, 5, "Identifier"), <<>>, <<>>),
        StatementDeclaration(ExpressionStatement(BinaryExpression(LiteralNumber(Token_new(11,
        12, "Number")), LiteralBoolean(Span_new(15, 19), TRUE), Token_new(13, 14,
        "Star"))))>>]

\* fun f() {} nil * 1;
P126 ==
    [family |-> "number_only",
     source |->
        <<"f", "u", "n", " ", "f", "(", ")", " ", "{", "}", " ", "n", "i", "l", " ",
        "*", " ", "1", ";">>,
     operand_type |-> "Nil",
     operand_span |-> Span_new(11, 14),
     declarations |->
        <<FunctionDeclaration(Token_new(4, 5, "Identifier"), <<>>, <<>>),
        StatementDeclaration(ExpressionStatement(BinaryExpression(LiteralNil(Span_new(11,
        14)), LiteralNumber(Token_new(17, 18, "Number")), Token_new(15, 16,
        "Star"))))>>]

\* fun f() {} 1 * nil;
P127 ==
    [family |-> "number_only",
     source |->
        <<"f", "u", "n", " ", "f", "(", ")", " ", "{", "}", " ", "1", " ", "*", " ",
        "n", "i", "l", ";">>,
     operand_type |-> "Nil",
     operand_span |-> Span_new(15, 18),
     declarations |->
        <<FunctionDeclaration(Token_new(4, 5, "Identifier"), <<>>, <<>>),
        StatementDeclaration(ExpressionStatement(BinaryExpression(LiteralNumber(Token_new(11,
        12, "Number")), LiteralNil(Span_new(15, 18)), Token_new(13, 14, "Star"))))>>]

\* fun f() {} f * 1;
P128 ==
    [family |-> "number_only",
     source |->
        <<"f", "u", "n", " ", "f", "(", ")", " ", "{", "}", " ", "f", " ", "*", " ",
        "1", ";">>,
     operand_type |-> "Callable",
     operand_span |-> Span_new(11, 12),
     declarations |->
        <<FunctionDeclaration(Token_new(4, 5, "Identifier"), <<>>, <<>>),
        StatementDeclaration(ExpressionStatement(BinaryExpression(VariableExpression(Token_new(11,
        12, "Identifier")), LiteralNumber(Token_new(15, 16, "Number")), Token_new(13,
        14, "Star"))))>>]

\* fun f() {} 1 * f;
P129 ==
    [family |-> "number_only",
     source |->
        <<"f", "u", "n", " ", "f", "(", ")", " ", "{", "}", " ", "1", " ", "*", " ",
        "f", ";">>,
     operand_type |-> "Callable",
     operand_span |-> Span_new(15, 16),
     declarations |->
        <<FunctionDeclaration(Token_new(4, 5, "Identifier"), <<>>, <<>>),
        StatementDeclaration(ExpressionStatement(BinaryExpression(LiteralNumber(Token_new(11,
        12, "Number")), VariableExpression(Token_new(15, 16, "Identifier")),
        Token_new(13, 14, "Star"))))>>]

\* fun f() {} "s" > 1;
P130 ==
    [family |-> "number_only",
     source |->
        <<"f", "u", "n", " ", "f", "(", ")", " ", "{", "}", " ", "\"", "s", "\"", " ",
        ">", " ", "1", ";">>,
     operand_type |-> "String",
     operand_span |-> Span_new(11, 14),
     declarations |->
        <<FunctionDeclaration(Token_new(4, 5, "Identifier"), <<>>, <<>>),
        StatementDeclaration(ExpressionStatement(BinaryExpression(LiteralString(Token_new(11,
        14, "String_")), LiteralNumber(Token_new(17, 18, "Number")), Token_new(15, 16,
        "Greater"))))>>]

\* fun f() {} 1 > "s";
P131 ==
    [family |-> "number_only",
     source |->
        <<"f", "u", "n", " ", "f", "(", ")", " ", "{", "}", " ", "1", " ", ">", " ",
        "\"", "s", "\"", ";">>,
     operand_type |-> "String",
     operand_span |-> Span_new(15, 18),
     declarations |->
        <<FunctionDeclaration(Token_new(4, 5, "Identifier"), <<>>, <<>>),
        StatementDeclaration(ExpressionStatement(BinaryExpression(LiteralNumber(Token_new(11,
        12, "Number")), LiteralString(Token_new(15, 18, "String_")), Token_new(13, 14,
        "Greater"))))>>]

\* fun f() {} true > 1;
P132 ==
    [family |-> "number_only",
     source |->
        <<"f", "u", "n", " ", "f", "(", ")", " ", "{", "}", " ", "t", "r", "u", "e",
        " ", ">", " ", "1", ";">>,
     operand_type |-> "Boolean",
     operand_span |-> Span_new(11, 15),
     declarations |->
        <<FunctionDeclaration(Token_new(4, 5, "Identifier"), <<>>, <<>>),
        StatementDeclaration(ExpressionStatement(BinaryExpression(LiteralBoolean(Span_new(11,
        15), TRUE), LiteralNumber(Token_new(18, 19, "Number")), Token_new(16, 17,
        "Greater"))))>>]

\* fun f() {} 1 > true;
P133 ==
    [family |-> "number_only",
     source |->
        <<"f", "u", "n", " ", "f", "(", ")", " ", "{", "}", " ", "1", " ", ">", " ",
        "t", "r", "u", "e", ";">>,
     operand_type |-> "Boolean",
     operand_span |-> Span_new(15, 19),
     declarations |->
        <<FunctionDeclaration(Token_new(4, 5, "Identifier"), <<>>, <<>>),
        StatementDeclaration(ExpressionStatement(BinaryExpression(LiteralNumber(Token_new(11,
        12, "Number")), LiteralBoolean(Span_new(15, 19), TRUE), Token_new(13, 14,
        "Greater"))))>>]

\* fun f() {} nil > 1;
P134 ==
    [family |-> "number_only",
     source |->
        <<"f", "u", "n", " ", "f", "(", ")", " ", "{", "}", " ", "n", "i", "l", " ",
        ">", " ", "1", ";">>,
     operand_type |-> "Nil",
     operand_span |-> Span_new(11, 14),
     declarations |->
        <<FunctionDeclaration(Token_new(4, 5, "Identifier"), <<>>, <<>>),
        StatementDeclaration(ExpressionStatement(BinaryExpression(LiteralNil(Span_new(11,
        14)), LiteralNumber(Token_new(17, 18, "Number")), Token_new(15, 16,
        "Greater"))))>>]

\* fun f() {} 1 > nil;
P135 ==
    [family |-> "number_only",
     source |->
        <<"f", "u", "n", " ", "f", "(", ")", " ", "{", "}", " ", "1", " ", ">", " ",
        "n", "i", "l", ";">>,
     operand_type |-> "Nil",
     operand_span |-> Span_new(15, 18),
     declarations |->
        <<FunctionDeclaration(Token_new(4, 5, "Identifier"), <<>>, <<>>),
        StatementDeclaration(ExpressionStatement(BinaryExpression(LiteralNumber(Token_new(11,
        12, "Number")), LiteralNil(Span_new(15, 18)), Token_new(13, 14, "Greater"))))>>]

\* fun f() {} f > 1;
P136 ==
    [family |-> "number_only",
     source |->
        <<"f", "u", "n", " ", "f", "(", ")", " ", "{", "}", " ", "f", " ", ">", " ",
        "1", ";">>,
     operand_type |-> "Callable",
     operand_span |-> Span_new(11, 12),
     declarations |->
        <<FunctionDeclaration(Token_new(4, 5, "Identifier"), <<>>, <<>>),
        StatementDeclaration(ExpressionStatement(BinaryExpression(VariableExpression(Token_new(11,
        12, "Identifier")), LiteralNumber(Token_new(15, 16, "Number")), Token_new(13,
        14, "Greater"))))>>]

\* fun f() {} 1 > f;
P137 ==
    [family |-> "number_only",
     source |->
        <<"f", "u", "n", " ", "f", "(", ")", " ", "{", "}", " ", "1", " ", ">", " ",
        "f", ";">>,
     operand_type |-> "Callable",
     operand_span |-> Span_new(15, 16),
     declarations |->
        <<FunctionDeclaration(Token_new(4, 5, "Identifier"), <<>>, <<>>),
        StatementDeclaration(ExpressionStatement(BinaryExpression(LiteralNumber(Token_new(11,
        12, "Number")), VariableExpression(Token_new(15, 16, "Identifier")),
        Token_new(13, 14, "Greater"))))>>]

\* fun f() {} "s" >= 1;
P138 ==
    [family |-> "number_only",
     source |->
        <<"f", "u", "n", " ", "f", "(", ")", " ", "{", "}", " ", "\"", "s", "\"", " ",
        ">", "=", " ", "1", ";">>,
     operand_type |-> "String",
     operand_span |-> Span_new(11, 14),
     declarations |->
        <<FunctionDeclaration(Token_new(4, 5, "Identifier"), <<>>, <<>>),
        StatementDeclaration(ExpressionStatement(BinaryExpression(LiteralString(Token_new(11,
        14, "String_")), LiteralNumber(Token_new(18, 19, "Number")), Token_new(15, 17,
        "GreaterEqual"))))>>]

\* fun f() {} 1 >= "s";
P139 ==
    [family |-> "number_only",
     source |->
        <<"f", "u", "n", " ", "f", "(", ")", " ", "{", "}", " ", "1", " ", ">", "=",
        " ", "\"", "s", "\"", ";">>,
     operand_type |-> "String",
     operand_span |-> Span_new(16, 19),
     declarations |->
        <<FunctionDeclaration(Token_new(4, 5, "Identifier"), <<>>, <<>>),
        StatementDeclaration(ExpressionStatement(BinaryExpression(LiteralNumber(Token_new(11,
        12, "Number")), LiteralString(Token_new(16, 19, "String_")), Token_new(13, 15,
        "GreaterEqual"))))>>]

\* fun f() {} true >= 1;
P140 ==
    [family |-> "number_only",
     source |->
        <<"f", "u", "n", " ", "f", "(", ")", " ", "{", "}", " ", "t", "r", "u", "e",
        " ", ">", "=", " ", "1", ";">>,
     operand_type |-> "Boolean",
     operand_span |-> Span_new(11, 15),
     declarations |->
        <<FunctionDeclaration(Token_new(4, 5, "Identifier"), <<>>, <<>>),
        StatementDeclaration(ExpressionStatement(BinaryExpression(LiteralBoolean(Span_new(11,
        15), TRUE), LiteralNumber(Token_new(19, 20, "Number")), Token_new(16, 18,
        "GreaterEqual"))))>>]

\* fun f() {} 1 >= true;
P141 ==
    [family |-> "number_only",
     source |->
        <<"f", "u", "n", " ", "f", "(", ")", " ", "{", "}", " ", "1", " ", ">", "=",
        " ", "t", "r", "u", "e", ";">>,
     operand_type |-> "Boolean",
     operand_span |-> Span_new(16, 20),
     declarations |->
        <<FunctionDeclaration(Token_new(4, 5, "Identifier"), <<>>, <<>>),
        StatementDeclaration(ExpressionStatement(BinaryExpression(LiteralNumber(Token_new(11,
        12, "Number")), LiteralBoolean(Span_new(16, 20), TRUE), Token_new(13, 15,
        "GreaterEqual"))))>>]

\* fun f() {} nil >= 1;
P142 ==
    [family |-> "number_only",
     source |->
        <<"f", "u", "n", " ", "f", "(", ")", " ", "{", "}", " ", "n", "i", "l", " ",
        ">", "=", " ", "1", ";">>,
     operand_type |-> "Nil",
     operand_span |-> Span_new(11, 14),
     declarations |->
        <<FunctionDeclaration(Token_new(4, 5, "Identifier"), <<>>, <<>>),
        StatementDeclaration(ExpressionStatement(BinaryExpression(LiteralNil(Span_new(11,
        14)), LiteralNumber(Token_new(18, 19, "Number")), Token_new(15, 17,
        "GreaterEqual"))))>>]

\* fun f() {} 1 >= nil;
P143 ==
    [family |-> "number_only",
     source |->
        <<"f", "u", "n", " ", "f", "(", ")", " ", "{", "}", " ", "1", " ", ">", "=",
        " ", "n", "i", "l", ";">>,
     operand_type |-> "Nil",
     operand_span |-> Span_new(16, 19),
     declarations |->
        <<FunctionDeclaration(Token_new(4, 5, "Identifier"), <<>>, <<>>),
        StatementDeclaration(ExpressionStatement(BinaryExpression(LiteralNumber(Token_new(11,
        12, "Number")), LiteralNil(Span_new(16, 19)), Token_new(13, 15,
        "GreaterEqual"))))>>]

\* fun f() {} f >= 1;
P144 ==
    [family |-> "number_only",
     source |->
        <<"f", "u", "n", " ", "f", "(", ")", " ", "{", "}", " ", "f", " ", ">", "=",
        " ", "1", ";">>,
     operand_type |-> "Callable",
     operand_span |-> Span_new(11, 12),
     declarations |->
        <<FunctionDeclaration(Token_new(4, 5, "Identifier"), <<>>, <<>>),
        StatementDeclaration(ExpressionStatement(BinaryExpression(VariableExpression(Token_new(11,
        12, "Identifier")), LiteralNumber(Token_new(16, 17, "Number")), Token_new(13,
        15, "GreaterEqual"))))>>]

\* fun f() {} 1 >= f;
P145 ==
    [family |-> "number_only",
     source |->
        <<"f", "u", "n", " ", "f", "(", ")", " ", "{", "}", " ", "1", " ", ">", "=",
        " ", "f", ";">>,
     operand_type |-> "Callable",
     operand_span |-> Span_new(16, 17),
     declarations |->
        <<FunctionDeclaration(Token_new(4, 5, "Identifier"), <<>>, <<>>),
        StatementDeclaration(ExpressionStatement(BinaryExpression(LiteralNumber(Token_new(11,
        12, "Number")), VariableExpression(Token_new(16, 17, "Identifier")),
        Token_new(13, 15, "GreaterEqual"))))>>]

\* fun f() {} "s" < 1;
P146 ==
    [family |-> "number_only",
     source |->
        <<"f", "u", "n", " ", "f", "(", ")", " ", "{", "}", " ", "\"", "s", "\"", " ",
        "<", " ", "1", ";">>,
     operand_type |-> "String",
     operand_span |-> Span_new(11, 14),
     declarations |->
        <<FunctionDeclaration(Token_new(4, 5, "Identifier"), <<>>, <<>>),
        StatementDeclaration(ExpressionStatement(BinaryExpression(LiteralString(Token_new(11,
        14, "String_")), LiteralNumber(Token_new(17, 18, "Number")), Token_new(15, 16,
        "Less"))))>>]

\* fun f() {} 1 < "s";
P147 ==
    [family |-> "number_only",
     source |->
        <<"f", "u", "n", " ", "f", "(", ")", " ", "{", "}", " ", "1", " ", "<", " ",
        "\"", "s", "\"", ";">>,
     operand_type |-> "String",
     operand_span |-> Span_new(15, 18),
     declarations |->
        <<FunctionDeclaration(Token_new(4, 5, "Identifier"), <<>>, <<>>),
        StatementDeclaration(ExpressionStatement(BinaryExpression(LiteralNumber(Token_new(11,
        12, "Number")), LiteralString(Token_new(15, 18, "String_")), Token_new(13, 14,
        "Less"))))>>]

\* fun f() {} true < 1;
P148 ==
    [family |-> "number_only",
     source |->
        <<"f", "u", "n", " ", "f", "(", ")", " ", "{", "}", " ", "t", "r", "u", "e",
        " ", "<", " ", "1", ";">>,
     operand_type |-> "Boolean",
     operand_span |-> Span_new(11, 15),
     declarations |->
        <<FunctionDeclaration(Token_new(4, 5, "Identifier"), <<>>, <<>>),
        StatementDeclaration(ExpressionStatement(BinaryExpression(LiteralBoolean(Span_new(11,
        15), TRUE), LiteralNumber(Token_new(18, 19, "Number")), Token_new(16, 17,
        "Less"))))>>]

\* fun f() {} 1 < true;
P149 ==
    [family |-> "number_only",
     source |->
        <<"f", "u", "n", " ", "f", "(", ")", " ", "{", "}", " ", "1", " ", "<", " ",
        "t", "r", "u", "e", ";">>,
     operand_type |-> "Boolean",
     operand_span |-> Span_new(15, 19),
     declarations |->
        <<FunctionDeclaration(Token_new(4, 5, "Identifier"), <<>>, <<>>),
        StatementDeclaration(ExpressionStatement(BinaryExpression(LiteralNumber(Token_new(11,
        12, "Number")), LiteralBoolean(Span_new(15, 19), TRUE), Token_new(13, 14,
        "Less"))))>>]

\* fun f() {} nil < 1;
P150 ==
    [family |-> "number_only",
     source |->
        <<"f", "u", "n", " ", "f", "(", ")", " ", "{", "}", " ", "n", "i", "l", " ",
        "<", " ", "1", ";">>,
     operand_type |-> "Nil",
     operand_span |-> Span_new(11, 14),
     declarations |->
        <<FunctionDeclaration(Token_new(4, 5, "Identifier"), <<>>, <<>>),
        StatementDeclaration(ExpressionStatement(BinaryExpression(LiteralNil(Span_new(11,
        14)), LiteralNumber(Token_new(17, 18, "Number")), Token_new(15, 16,
        "Less"))))>>]

\* fun f() {} 1 < nil;
P151 ==
    [family |-> "number_only",
     source |->
        <<"f", "u", "n", " ", "f", "(", ")", " ", "{", "}", " ", "1", " ", "<", " ",
        "n", "i", "l", ";">>,
     operand_type |-> "Nil",
     operand_span |-> Span_new(15, 18),
     declarations |->
        <<FunctionDeclaration(Token_new(4, 5, "Identifier"), <<>>, <<>>),
        StatementDeclaration(ExpressionStatement(BinaryExpression(LiteralNumber(Token_new(11,
        12, "Number")), LiteralNil(Span_new(15, 18)), Token_new(13, 14, "Less"))))>>]

\* fun f() {} f < 1;
P152 ==
    [family |-> "number_only",
     source |->
        <<"f", "u", "n", " ", "f", "(", ")", " ", "{", "}", " ", "f", " ", "<", " ",
        "1", ";">>,
     operand_type |-> "Callable",
     operand_span |-> Span_new(11, 12),
     declarations |->
        <<FunctionDeclaration(Token_new(4, 5, "Identifier"), <<>>, <<>>),
        StatementDeclaration(ExpressionStatement(BinaryExpression(VariableExpression(Token_new(11,
        12, "Identifier")), LiteralNumber(Token_new(15, 16, "Number")), Token_new(13,
        14, "Less"))))>>]

\* fun f() {} 1 < f;
P153 ==
    [family |-> "number_only",
     source |->
        <<"f", "u", "n", " ", "f", "(", ")", " ", "{", "}", " ", "1", " ", "<", " ",
        "f", ";">>,
     operand_type |-> "Callable",
     operand_span |-> Span_new(15, 16),
     declarations |->
        <<FunctionDeclaration(Token_new(4, 5, "Identifier"), <<>>, <<>>),
        StatementDeclaration(ExpressionStatement(BinaryExpression(LiteralNumber(Token_new(11,
        12, "Number")), VariableExpression(Token_new(15, 16, "Identifier")),
        Token_new(13, 14, "Less"))))>>]

\* fun f() {} "s" <= 1;
P154 ==
    [family |-> "number_only",
     source |->
        <<"f", "u", "n", " ", "f", "(", ")", " ", "{", "}", " ", "\"", "s", "\"", " ",
        "<", "=", " ", "1", ";">>,
     operand_type |-> "String",
     operand_span |-> Span_new(11, 14),
     declarations |->
        <<FunctionDeclaration(Token_new(4, 5, "Identifier"), <<>>, <<>>),
        StatementDeclaration(ExpressionStatement(BinaryExpression(LiteralString(Token_new(11,
        14, "String_")), LiteralNumber(Token_new(18, 19, "Number")), Token_new(15, 17,
        "LessEqual"))))>>]

\* fun f() {} 1 <= "s";
P155 ==
    [family |-> "number_only",
     source |->
        <<"f", "u", "n", " ", "f", "(", ")", " ", "{", "}", " ", "1", " ", "<", "=",
        " ", "\"", "s", "\"", ";">>,
     operand_type |-> "String",
     operand_span |-> Span_new(16, 19),
     declarations |->
        <<FunctionDeclaration(Token_new(4, 5, "Identifier"), <<>>, <<>>),
        StatementDeclaration(ExpressionStatement(BinaryExpression(LiteralNumber(Token_new(11,
        12, "Number")), LiteralString(Token_new(16, 19, "String_")), Token_new(13, 15,
        "LessEqual"))))>>]

\* fun f() {} true <= 1;
P156 ==
    [family |-> "number_only",
     source |->
        <<"f", "u", "n", " ", "f", "(", ")", " ", "{", "}", " ", "t", "r", "u", "e",
        " ", "<", "=", " ", "1", ";">>,
     operand_type |-> "Boolean",
     operand_span |-> Span_new(11, 15),
     declarations |->
        <<FunctionDeclaration(Token_new(4, 5, "Identifier"), <<>>, <<>>),
        StatementDeclaration(ExpressionStatement(BinaryExpression(LiteralBoolean(Span_new(11,
        15), TRUE), LiteralNumber(Token_new(19, 20, "Number")), Token_new(16, 18,
        "LessEqual"))))>>]

\* fun f() {} 1 <= true;
P157 ==
    [family |-> "number_only",
     source |->
        <<"f", "u", "n", " ", "f", "(", ")", " ", "{", "}", " ", "1", " ", "<", "=",
        " ", "t", "r", "u", "e", ";">>,
     operand_type |-> "Boolean",
     operand_span |-> Span_new(16, 20),
     declarations |->
        <<FunctionDeclaration(Token_new(4, 5, "Identifier"), <<>>, <<>>),
        StatementDeclaration(ExpressionStatement(BinaryExpression(LiteralNumber(Token_new(11,
        12, "Number")), LiteralBoolean(Span_new(16, 20), TRUE), Token_new(13, 15,
        "LessEqual"))))>>]

\* fun f() {} nil <= 1;
P158 ==
    [family |-> "number_only",
     source |->
        <<"f", "u", "n", " ", "f", "(", ")", " ", "{", "}", " ", "n", "i", "l", " ",
        "<", "=", " ", "1", ";">>,
     operand_type |-> "Nil",
     operand_span |-> Span_new(11, 14),
     declarations |->
        <<FunctionDeclaration(Token_new(4, 5, "Identifier"), <<>>, <<>>),
        StatementDeclaration(ExpressionStatement(BinaryExpression(LiteralNil(Span_new(11,
        14)), LiteralNumber(Token_new(18, 19, "Number")), Token_new(15, 17,
        "LessEqual"))))>>]

\* fun f() {} 1 <= nil;
P159 ==
    [family |-> "number_only",
     source |->
        <<"f", "u", "n", " ", "f", "(", ")", " ", "{", "}", " ", "1", " ", "<", "=",
        " ", "n", "i", "l", ";">>,
     operand_type |-> "Nil",
     operand_span |-> Span_new(16, 19),
     declarations |->
        <<FunctionDeclaration(Token_new(4, 5, "Identifier"), <<>>, <<>>),
        StatementDeclaration(ExpressionStatement(BinaryExpression(LiteralNumber(Token_new(11,
        12, "Number")), LiteralNil(Span_new(16, 19)), Token_new(13, 15,
        "LessEqual"))))>>]

\* fun f() {} f <= 1;
P160 ==
    [family |-> "number_only",
     source |->
        <<"f", "u", "n", " ", "f", "(", ")", " ", "{", "}", " ", "f", " ", "<", "=",
        " ", "1", ";">>,
     operand_type |-> "Callable",
     operand_span |-> Span_new(11, 12),
     declarations |->
        <<FunctionDeclaration(Token_new(4, 5, "Identifier"), <<>>, <<>>),
        StatementDeclaration(ExpressionStatement(BinaryExpression(VariableExpression(Token_new(11,
        12, "Identifier")), LiteralNumber(Token_new(16, 17, "Number")), Token_new(13,
        15, "LessEqual"))))>>]

\* fun f() {} 1 <= f;
P161 ==
    [family |-> "number_only",
     source |->
        <<"f", "u", "n", " ", "f", "(", ")", " ", "{", "}", " ", "1", " ", "<", "=",
        " ", "f", ";">>,
     operand_type |-> "Callable",
     operand_span |-> Span_new(16, 17),
     declarations |->
        <<FunctionDeclaration(Token_new(4, 5, "Identifier"), <<>>, <<>>),
        StatementDeclaration(ExpressionStatement(BinaryExpression(LiteralNumber(Token_new(11,
        12, "Number")), VariableExpression(Token_new(16, 17, "Identifier")),
        Token_new(13, 15, "LessEqual"))))>>]

\* fun f() {} "s" == 1;
P162 ==
    [family |-> "number_only",
     source |->
        <<"f", "u", "n", " ", "f", "(", ")", " ", "{", "}", " ", "\"", "s", "\"", " ",
        "=", "=", " ", "1", ";">>,
     operand_type |-> "String",
     operand_span |-> Span_new(11, 14),
     declarations |->
        <<FunctionDeclaration(Token_new(4, 5, "Identifier"), <<>>, <<>>),
        StatementDeclaration(ExpressionStatement(BinaryExpression(LiteralString(Token_new(11,
        14, "String_")), LiteralNumber(Token_new(18, 19, "Number")), Token_new(15, 17,
        "EqualEqual"))))>>]

\* fun f() {} 1 == "s";
P163 ==
    [family |-> "number_only",
     source |->
        <<"f", "u", "n", " ", "f", "(", ")", " ", "{", "}", " ", "1", " ", "=", "=",
        " ", "\"", "s", "\"", ";">>,
     operand_type |-> "String",
     operand_span |-> Span_new(16, 19),
     declarations |->
        <<FunctionDeclaration(Token_new(4, 5, "Identifier"), <<>>, <<>>),
        StatementDeclaration(ExpressionStatement(BinaryExpression(LiteralNumber(Token_new(11,
        12, "Number")), LiteralString(Token_new(16, 19, "String_")), Token_new(13, 15,
        "EqualEqual"))))>>]

\* fun f() {} true == 1;
P164 ==
    [family |-> "number_only",
     source |->
        <<"f", "u", "n", " ", "f", "(", ")", " ", "{", "}", " ", "t", "r", "u", "e",
        " ", "=", "=", " ", "1", ";">>,
     operand_type |-> "Boolean",
     operand_span |-> Span_new(11, 15),
     declarations |->
        <<FunctionDeclaration(Token_new(4, 5, "Identifier"), <<>>, <<>>),
        StatementDeclaration(ExpressionStatement(BinaryExpression(LiteralBoolean(Span_new(11,
        15), TRUE), LiteralNumber(Token_new(19, 20, "Number")), Token_new(16, 18,
        "EqualEqual"))))>>]

\* fun f() {} 1 == true;
P165 ==
    [family |-> "number_only",
     source |->
        <<"f", "u", "n", " ", "f", "(", ")", " ", "{", "}", " ", "1", " ", "=", "=",
        " ", "t", "r", "u", "e", ";">>,
     operand_type |-> "Boolean",
     operand_span |-> Span_new(16, 20),
     declarations |->
        <<FunctionDeclaration(Token_new(4, 5, "Identifier"), <<>>, <<>>),
        StatementDeclaration(ExpressionStatement(BinaryExpression(LiteralNumber(Token_new(11,
        12, "Number")), LiteralBoolean(Span_new(16, 20), TRUE), Token_new(13, 15,
        "EqualEqual"))))>>]

\* fun f() {} nil == 1;
P166 ==
    [family |-> "number_only",
     source |->
        <<"f", "u", "n", " ", "f", "(", ")", " ", "{", "}", " ", "n", "i", "l", " ",
        "=", "=", " ", "1", ";">>,
     operand_type |-> "Nil",
     operand_span |-> Span_new(11, 14),
     declarations |->
        <<FunctionDeclaration(Token_new(4, 5, "Identifier"), <<>>, <<>>),
        StatementDeclaration(ExpressionStatement(BinaryExpression(LiteralNil(Span_new(11,
        14)), LiteralNumber(Token_new(18, 19, "Number")), Token_new(15, 17,
        "EqualEqual"))))>>]

\* fun f() {} 1 == nil;
P167 ==
    [family |-> "number_only",
     source |->
        <<"f", "u", "n", " ", "f", "(", ")", " ", "{", "}", " ", "1", " ", "=", "=",
        " ", "n", "i", "l", ";">>,
     operand_type |-> "Nil",
     operand_span |-> Span_new(16, 19),
     declarations |->
        <<FunctionDeclaration(Token_new(4, 5, "Identifier"), <<>>, <<>>),
        StatementDeclaration(ExpressionStatement(BinaryExpression(LiteralNumber(Token_new(11,
        12, "Number")), LiteralNil(Span_new(16, 19)), Token_new(13, 15,
        "EqualEqual"))))>>]

\* fun f() {} f == 1;
P168 ==
    [family |-> "number_only",
     source |->
        <<"f", "u", "n", " ", "f", "(", ")", " ", "{", "}", " ", "f", " ", "=", "=",
        " ", "1", ";">>,
     operand_type |-> "Callable",
     operand_span |-> Span_new(11, 12),
     declarations |->
        <<FunctionDeclaration(Token_new(4, 5, "Identifier"), <<>>, <<>>),
        StatementDeclaration(ExpressionStatement(BinaryExpression(VariableExpression(Token_new(11,
        12, "Identifier")), LiteralNumber(Token_new(16, 17, "Number")), Token_new(13,
        15, "EqualEqual"))))>>]

\* fun f() {} 1 == f;
P169 ==
    [family |-> "number_only",
     source |->
        <<"f", "u", "n", " ", "f", "(", ")", " ", "{", "}", " ", "1", " ", "=", "=",
        " ", "f", ";">>,
     operand_type |-> "Callable",
     operand_span |-> Span_new(16, 17),
     declarations |->
        <<FunctionDeclaration(Token_new(4, 5, "Identifier"), <<>>, <<>>),
        StatementDeclaration(ExpressionStatement(BinaryExpression(LiteralNumber(Token_new(11,
        12, "Number")), VariableExpression(Token_new(16, 17, "Identifier")),
        Token_new(13, 15, "EqualEqual"))))>>]

\* fun f() {} "s" != 1;
P170 ==
    [family |-> "number_only",
     source |->
        <<"f", "u", "n", " ", "f", "(", ")", " ", "{", "}", " ", "\"", "s", "\"", " ",
        "!", "=", " ", "1", ";">>,
     operand_type |-> "String",
     operand_span |-> Span_new(11, 14),
     declarations |->
        <<FunctionDeclaration(Token_new(4, 5, "Identifier"), <<>>, <<>>),
        StatementDeclaration(ExpressionStatement(BinaryExpression(LiteralString(Token_new(11,
        14, "String_")), LiteralNumber(Token_new(18, 19, "Number")), Token_new(15, 17,
        "BangEqual"))))>>]

\* fun f() {} 1 != "s";
P171 ==
    [family |-> "number_only",
     source |->
        <<"f", "u", "n", " ", "f", "(", ")", " ", "{", "}", " ", "1", " ", "!", "=",
        " ", "\"", "s", "\"", ";">>,
     operand_type |-> "String",
     operand_span |-> Span_new(16, 19),
     declarations |->
        <<FunctionDeclaration(Token_new(4, 5, "Identifier"), <<>>, <<>>),
        StatementDeclaration(ExpressionStatement(BinaryExpression(LiteralNumber(Token_new(11,
        12, "Number")), LiteralString(Token_new(16, 19, "String_")), Token_new(13, 15,
        "BangEqual"))))>>]

\* fun f() {} true != 1;
P172 ==
    [family |-> "number_only",
     source |->
        <<"f", "u", "n", " ", "f", "(", ")", " ", "{", "}", " ", "t", "r", "u", "e",
        " ", "!", "=", " ", "1", ";">>,
     operand_type |-> "Boolean",
     operand_span |-> Span_new(11, 15),
     declarations |->
        <<FunctionDeclaration(Token_new(4, 5, "Identifier"), <<>>, <<>>),
        StatementDeclaration(ExpressionStatement(BinaryExpression(LiteralBoolean(Span_new(11,
        15), TRUE), LiteralNumber(Token_new(19, 20, "Number")), Token_new(16, 18,
        "BangEqual"))))>>]

\* fun f() {} 1 != true;
P173 ==
    [family |-> "number_only",
     source |->
        <<"f", "u", "n", " ", "f", "(", ")", " ", "{", "}", " ", "1", " ", "!", "=",
        " ", "t", "r", "u", "e", ";">>,
     operand_type |-> "Boolean",
     operand_span |-> Span_new(16, 20),
     declarations |->
        <<FunctionDeclaration(Token_new(4, 5, "Identifier"), <<>>, <<>>),
        StatementDeclaration(ExpressionStatement(BinaryExpression(LiteralNumber(Token_new(11,
        12, "Number")), LiteralBoolean(Span_new(16, 20), TRUE), Token_new(13, 15,
        "BangEqual"))))>>]

\* fun f() {} nil != 1;
P174 ==
    [family |-> "number_only",
     source |->
        <<"f", "u", "n", " ", "f", "(", ")", " ", "{", "}", " ", "n", "i", "l", " ",
        "!", "=", " ", "1", ";">>,
     operand_type |-> "Nil",
     operand_span |-> Span_new(11, 14),
     declarations |->
        <<FunctionDeclaration(Token_new(4, 5, "Identifier"), <<>>, <<>>),
        StatementDeclaration(ExpressionStatement(BinaryExpression(LiteralNil(Span_new(11,
        14)), LiteralNumber(Token_new(18, 19, "Number")), Token_new(15, 17,
        "BangEqual"))))>>]

\* fun f() {} 1 != nil;
P175 ==
    [family |-> "number_only",
     source |->
        <<"f", "u", "n", " ", "f", "(", ")", " ", "{", "}", " ", "1", " ", "!", "=",
        " ", "n", "i", "l", ";">>,
     operand_type |-> "Nil",
     operand_span |-> Span_new(16, 19),
     declarations |->
        <<FunctionDeclaration(Token_new(4, 5, "Identifier"), <<>>, <<>>),
        StatementDeclaration(ExpressionStatement(BinaryExpression(LiteralNumber(Token_new(11,
        12, "Number")), LiteralNil(Span_new(16, 19)), Token_new(13, 15,
        "BangEqual"))))>>]

\* fun f() {} f != 1;
P176 ==
    [family |-> "number_only",
     source |->
        <<"f", "u", "n", " ", "f", "(", ")", " ", "{", "}", " ", "f", " ", "!", "=",
        " ", "1", ";">>,
     operand_type |-> "Callable",
     operand_span |-> Span_new(11, 12),
     declarations |->
        <<FunctionDeclaration(Token_new(4, 5, "Identifier"), <<>>, <<>>),
        StatementDeclaration(ExpressionStatement(BinaryExpression(VariableExpression(Token_new(11,
        12, "Identifier")), LiteralNumber(Token_new(16, 17, "Number")), Token_new(13,
        15, "BangEqual"))))>>]

\* fun f() {} 1 != f;
P177 ==
    [family |-> "number_only",
     source |->
        <<"f", "u", "n", " ", "f", "(", ")", " ", "{", "}", " ", "1", " ", "!", "=",
        " ", "f", ";">>,
     operand_type |-> "Callable",
     operand_span |-> Span_new(16, 17),
     declarations |->
        <<FunctionDeclaration(Token_new(4, 5, "Identifier"), <<>>, <<>>),
        StatementDeclaration(ExpressionStatement(BinaryExpression(LiteralNumber(Token_new(11,
        12, "Number")), VariableExpression(Token_new(16, 17, "Identifier")),
        Token_new(13, 15, "BangEqual"))))>>]

\* fun f() {} -"s";
P178 ==
    [family |-> "number_only",
     source |->
        <<"f", "u", "n", " ", "f", "(", ")", " ", "{", "}", " ", "-", "\"", "s", "\"",
        ";">>,
     operand_type |-> "String",
     operand_span |-> Span_new(12, 15),
     declarations |->
        <<FunctionDeclaration(Token_new(4, 5, "Identifier"), <<>>, <<>>),
        StatementDeclaration(ExpressionStatement(UnaryExpression(Token_new(11, 12,
        "Minus"), LiteralString(Token_new(12, 15, "String_")))))>>]

\* fun f() {} -true;
P179 ==
    [family |-> "number_only",
     source |->
        <<"f", "u", "n", " ", "f", "(", ")", " ", "{", "}", " ", "-", "t", "r", "u",
        "e", ";">>,
     operand_type |-> "Boolean",
     operand_span |-> Span_new(12, 16),
     declarations |->
        <<FunctionDeclaration(Token_new(4, 5, "Identifier"), <<>>, <<>>),
        StatementDeclaration(ExpressionStatement(UnaryExpression(Token_new(11, 12,
        "Minus"), LiteralBoolean(Span_new(12, 16), TRUE))))>>]

\* fun f() {} -nil;
P180 ==
    [family |-> "number_only",
     source |->
        <<"f", "u", "n", " ", "f", "(", ")", " ", "{", "}", " ", "-", "n", "i", "l",
        ";">>,
     operand_type |-> "Nil",
     operand_span |-> Span_new(12, 15),
     declarations |->
        <<FunctionDeclaration(Token_new(4, 5, "Identifier"), <<>>, <<>>),
        StatementDeclaration(ExpressionStatement(UnaryExpression(Token_new(11, 12,
        "Minus"), LiteralNil(Span_new(12, 15)))))>>]

\* fun f() {} -f;
P181 ==
    [family |-> "number_only",
     source |->
        <<"f", "u", "n", " ", "f", "(", ")", " ", "{", "}", " ", "-", "f", ";">>,
     operand_type |-> "Callable",
     operand_span |-> Span_new(12, 13),
     declarations |->
        <<FunctionDeclaration(Token_new(4, 5, "Identifier"), <<>>, <<>>),
        StatementDeclaration(ExpressionStatement(UnaryExpression(Token_new(11, 12,
        "Minus"), VariableExpression(Token_new(12, 13, "Identifier")))))>>]

\* print 1 or q;
P182 ==
    [family |-> "logical",
     source |->
        <<"p", "r", "i", "n", "t", " ", "1", " ", "o", "r", " ", "q", ";">>,
     want_out |-> <<<<"1">>>>,
     want_kind |-> "Ok",
     never |-> {},
     declarations |->
        <<StatementDeclaration(PrintStatement(LogicalExpression(LiteralNumber(Token_new(6,
        7, "Number")), VariableExpression(Token_new(11, 12, "Identifier")),
        Token_new(8, 10, "Or"))))>>]

\* print "s" or q;
P183 ==
    [family |-> "logical",
     source |->
        <<"p", "r", "i", "n", "t", " ", "\"", "s", "\"", " ", "o", "r", " ", "q", ";">>,
     want_out |-> <<<<"s">>>>,
     want_kind |-> "Ok",
     never |-> {},
     declarations |->
        <<StatementDeclaration(PrintStatement(LogicalExpression(LiteralString(Token_new(6,
        9, "String_")), VariableExpression(Token_new(13, 14, "Identifier")),
        Token_new(10, 12, "Or"))))>>]

\* print true or q;
P184 ==
    [family |-> "logical",
     source |->
        <<"p", "r", "i", "n", "t", " ", "t", "r", "u", "e", " ", "o", "r", " ", "q",
        ";">>,
     want_out |-> <<<<"t", "r", "u", "e">>>>,
     want_kind |-> "Ok",
     never |-> {},
     declarations |->
        <<StatementDeclaration(PrintStatement(LogicalExpression(LiteralBoolean(Span_new(6,
        10), TRUE), VariableExpression(Token_new(14, 15, "Identifier")), Token_new(11,
        13, "Or"))))>>]

\* print nil and q;
P185 ==
    [family |-> "logical",
     source |->
        <<"p", "r", "i", "n", "t", " ", "n", "i", "l", " ", "a", "n", "d", " ", "q",
        ";">>,
     want_out |-> <<<<"n", "i", "l">>>>,
     want_kind |-> "Ok",
     never |-> {},
     declarations |->
        <<StatementDeclaration(PrintStatement(LogicalExpression(LiteralNil(Span_new(6,
        9)), VariableExpression(Token_new(14, 15, "Identifier")), Token_new(10, 13,
        "And"))))>>]

\* print false and q;
P186 ==
    [family |-> "logical",
     source |->
        <<"p", "r", "i", "n", "t", " ", "f", "a", "l", "s", "e", " ", "a", "n", "d",
        " ", "q", ";">>,
     want_out |-> <<<<"f", "a", "l", "s", "e">>>>,
     want_kind |-> "Ok",
     never |-> {},
     declarations |->
        <<StatementDeclaration(PrintStatement(LogicalExpression(LiteralBoolean(Span_new(6,
        11), FALSE), VariableExpression(Token_new(16, 17, "Identifier")), Token_new(12,
        15, "And"))))>>]

\* print nil or 2;
P187 ==
    [family |-> "logical",
     source |->
        <<"p", "r", "i", "n", "t", " ", "n", "i", "l", " ", "o", "r", " ", "2", ";">>,
     want_out |-> <<<<"2">>>>,
     want_kind |-> "Ok",
     never |-> {},
     declarations |->
        <<StatementDeclaration(PrintStatement(LogicalExpression(LiteralNil(Span_new(6,
        9)), LiteralNumber(Token_new(13, 14, "Number")), Token_new(10, 12, "Or"))))>>]

\* print false or nil;
P188 ==
    [family |-> "logical",
     source |->
        <<"p", "r", "i", "n", "t", " ", "f", "a", "l", "s", "e", " ", "o", "r", " ",
        "n", "i", "l", ";">>,
     want_out |-> <<<<"n", "i", "l">>>>,
     want_kind |-> "Ok",
     never |-> {},
     declarations |->
        <<StatementDeclaration(PrintStatement(LogicalExpression(LiteralBoolean(Span_new(6,
        11), FALSE), LiteralNil(Span_new(15, 18)), Token_new(12, 14, "Or"))))>>]

\* print 1 and 2;
P189 ==
    [family |-> "logical",
     source |->
        <<"p", "r", "i", "n", "t", " ", "1", " ", "a", "n", "d", " ", "2", ";">>,
     want_out |-> <<<<"2">>>>,
     want_kind |-> "Ok",
     never |-> {},
     declarations |->
        <<StatementDeclaration(PrintStatement(LogicalExpression(LiteralNumber(Token_new(6,
        7, "Number")), LiteralNumber(Token_new(12, 13, "Number")), Token_new(8, 11,
        "And"))))>>]

\* print 0 and "s";
P190 ==
    [family |-> "logical",
     source |->
        <<"p", "r", "i", "n", "t", " ", "0", " ", "a", "n", "d", " ", "\"", "s", "\"",
        ";">>,
     want_out |-> <<<<"s">>>>,
     want_kind |-> "Ok",
     never |-> {},
     declarations |->
        <<StatementDeclaration(PrintStatement(LogicalExpression(LiteralNumber(Token_new(6,
        7, "Number")), LiteralString(Token_new(12, 15, "String_")), Token_new(8, 11,
        "And"))))>>]

\* print "" and 3;
P191 ==
    [family |-> "logical",
     source |->
        <<"p", "r", "i", "n", "t", " ", "\"", "\"", " ", "a", "n", "d", " ", "3", ";">>,
     want_out |-> <<<<"3">>>>,
     want_kind |-> "Ok",
     never |-> {},
     declarations |->
        <<StatementDeclaration(PrintStatement(LogicalExpression(LiteralString(Token_new(6,
        8, "String_")), LiteralNumber(Token_new(13, 14, "Number")), Token_new(9, 12,
        "And"))))>>]

\* var x = 0; print 1 or (x = 5); print x;
P192 ==
    [family |-> "logical",
     source |->
        <<"v", "a", "r", " ", "x", " ", "=", " ", "0", ";", " ", "p", "r", "i", "n",
        "t", " ", "1", " ", "o", "r", " ", "(", "x", " ", "=", " ", "5", ")", ";", " ",
        "p", "r", "i", "n", "t", " ", "x", ";">>,
     want_out |-> <<<<"1">>, <<"0">>>>,
     want_kind |-> "Ok",
     never |-> {5},
     declarations |->
        <<VariableDeclaration(Token_new(4, 5, "Identifier"), LiteralNumber(Token_new(8,
        9, "Number"))),
        StatementDeclaration(PrintStatement(LogicalExpression(LiteralNumber(Token_new(17,
        18, "Number")), GroupingExpression(AssignmentExpression(Token_new(23, 24,
        "Identifier"), LiteralNumber(Token_new(27, 28, "Number")))), Token_new(19, 21,
        "Or")))), StatementDeclaration(PrintStatement(VariableExpression(Token_new(37,
        38, "Identifier"))))>>]

\* var x = 0; print nil and (x = 5); print x;
P193 ==
    [family |-> "logical",
     source |->
        <<"v", "a", "r", " ", "x", " ", "=", " ", "0", ";", " ", "p", "r", "i", "n",
        "t", " ", "n", "i", "l", " ", "a", "n", "d", " ", "(", "x", " ", "=", " ", "5",
        ")", ";", " ", "p", "r", "i", "n", "t", " ", "x", ";">>,
     want_out |-> <<<<"n", "i", "l">>, <<"0">>>>,
     want_kind |-> "Ok",
     never |-> {5},
     declarations |->
        <<VariableDeclaration(Token_new(4, 5, "Identifier"), LiteralNumber(Token_new(8,
        9, "Number"))),
        StatementDeclaration(PrintStatement(LogicalExpression(LiteralNil(Span_new(17,
        20)), GroupingExpression(AssignmentExpression(Token_new(26, 27, "Identifier"),
        LiteralNumber(Token_new(30, 31, "Number")))), Token_new(21, 24, "And")))),
        StatementDeclaration(PrintStatement(VariableExpression(Token_new(40, 41,
        "Identifier"))))>>]

\* var x = 0; print false and (x = 5); print x;
P194 ==
    [family |-> "logical",
     source |->
        <<"v", "a", "r", " ", "x", " ", "=", " ", "0", ";", " ", "p", "r", "i", "n",
        "t", " ", "f", "a", "l", "s", "e", " ", "a", "n", "d", " ", "(", "x", " ", "=",
        " ", "5", ")", ";", " ", "p", "r", "i", "n", "t", " ", "x", ";">>,
     want_out |-> <<<<"f", "a", "l", "s", "e">>, <<"0">>>>,
     want_kind |-> "Ok",
     never |-> {5},
     declarations |->
        <<VariableDeclaration(Token_new(4, 5, "Identifier"), LiteralNumber(Token_new(8,
        9, "Number"))),
        StatementDeclaration(PrintStatement(LogicalExpression(LiteralBoolean(Span_new(17,
        22), FALSE), GroupingExpression(AssignmentExpression(Token_new(28, 29,
        "Identifier"), LiteralNumber(Token_new(32, 33, "Number")))), Token_new(23, 26,
        "And")))), StatementDeclaration(PrintStatement(VariableExpression(Token_new(42,
        43, "Identifier"))))>>]

\* var x = 0; print nil or (x = 5); print x;
P195 ==
    [family |-> "logical",
     source |->
        <<"v", "a", "r", " ", "x", " ", "=", " ", "0", ";", " ", "p", "r", "i", "n",
        "t", " ", "n", "i", "l", " ", "o", "r", " ", "(", "x", " ", "=", " ", "5", ")",
        ";", " ", "p", "r", "i", "n", "t", " ", "x", ";">>,
     want_out |-> <<<<"5">>, <<"5">>>>,
     want_kind |-> "Ok",
     never |-> {},
     declarations |->
        <<VariableDeclaration(Token_new(4, 5, "Identifier"), LiteralNumber(Token_new(8,
        9, "Number"))),
        StatementDeclaration(PrintStatement(LogicalExpression(LiteralNil(Span_new(17,
        20)), GroupingExpression(AssignmentExpression(Token_new(25, 26, "Identifier"),
        LiteralNumber(Token_new(29, 30, "Number")))), Token_new(21, 23, "Or")))),
        StatementDeclaration(PrintStatement(VariableExpression(Token_new(39, 40,
        "Identifier"))))>>]

\* var x = 0; print 7 and (x = 5); print x;
P196 ==
    [family |-> "logical",
     source |->
        <<"v", "a", "r", " ", "x", " ", "=", " ", "0", ";", " ", "p", "r", "i", "n",
        "t", " ", "7", " ", "a", "n", "d", " ", "(", "x", " ", "=", " ", "5", ")", ";",
        " ", "p", "r", "i", "n", "t", " ", "x", ";">>,
     want_out |-> <<<<"5">>, <<"5">>>>,
     want_kind |-> "Ok",
     never |-> {},
     declarations |->
        <<VariableDeclaration(Token_new(4, 5, "Identifier"), LiteralNumber(Token_new(8,
        9, "Number"))),
        StatementDeclaration(PrintStatement(LogicalExpression(LiteralNumber(Token_new(17,
        18, "Number")), GroupingExpression(AssignmentExpression(Token_new(24, 25,
        "Identifier"), LiteralNumber(Token_new(28, 29, "Number")))), Token_new(19, 22,
        "And")))), StatementDeclaration(PrintStatement(VariableExpression(Token_new(38,
        39, "Identifier"))))>>]

\* var x = 1; print (x = x + 1) and (x = x * 10); print x;
P197 ==
    [family |-> "logical",
     source |->
        <<"v", "a", "r", " ", "x", " ", "=", " ", "1", ";", " ", "p", "r", "i", "n",
        "t", " ", "(", "x", " ", "=", " ", "x", " ", "+", " ", "1", ")", " ", "a", "n",
        "d", " ", "(", "x", " ", "=", " ", "x", " ", "*", " ", "1", "0", ")", ";", " ",
        "p", "r", "i", "n", "t", " ", "x", ";">>,
     want_out |-> <<<<"2", "0">>, <<"2", "0">>>>,
     want_kind |-> "Ok",
     never |-> {10, 11, 200, 21},
     declarations |->
        <<VariableDeclaration(Token_new(4, 5, "Identifier"), LiteralNumber(Token_new(8,
        9, "Number"))),
        StatementDeclaration(PrintStatement(LogicalExpression(GroupingExpression(AssignmentExpression(Token_new(18,
        19, "Identifier"), BinaryExpression(VariableExpression(Token_new(22, 23,
        "Identifier")), LiteralNumber(Token_new(26, 27, "Number")), Token_new(24, 25,
        "Plus")))), GroupingExpression(AssignmentExpression(Token_new(34, 35,
        "Identifier"), BinaryExpression(VariableExpression(Token_new(38, 39,
        "Identifier")), LiteralNumber(Token_new(42, 44, "Number")), Token_new(40, 41,
        "Star")))), Token_new(29, 32, "And")))),
        StatementDeclaration(PrintStatement(VariableExpression(Token_new(53, 54,
        "Identifier"))))>>]

\* var x = 1; print (x = x - 1) or (x = x + 5); print x;
P198 ==
    [family |-> "logical",
     source |->
        <<"v", "a", "r", " ", "x", " ", "=", " ", "1", ";", " ", "p", "r", "i", "n",
        "t", " ", "(", "x", " ", "=", " ", "x", " ", "-", " ", "1", ")", " ", "o", "r",
        " ", "(", "x", " ", "=", " ", "x", " ", "+", " ", "5", ")", ";", " ", "p", "r",
        "i", "n", "t", " ", "x", ";">>,
     want_out |-> <<<<"0">>, <<"0">>>>,
     want_kind |-> "Ok",
     never |-> {5, 6, 4},
     declarations |->
        <<VariableDeclaration(Token_new(4, 5, "Identifier"), LiteralNumber(Token_new(8,
        9, "Number"))),
        StatementDeclaration(PrintStatement(LogicalExpression(GroupingExpression(AssignmentExpression(Token_new(18,
        19, "Identifier"), BinaryExpression(VariableExpression(Token_new(22, 23,
        "Identifier")), LiteralNumber(Token_new(26, 27, "Number")), Token_new(24, 25,
        "Minus")))), GroupingExpression(AssignmentExpression(Token_new(33, 34,
        "Identifier"), BinaryExpression(VariableExpression(Token_new(37, 38,
        "Identifier")), LiteralNumber(Token_new(41, 42, "Number")), Token_new(39, 40,
        "Plus")))), Token_new(29, 31, "Or")))),
        StatementDeclaration(PrintStatement(VariableExpression(Token_new(51, 52,
        "Identifier"))))>>]

\* var x = 1; print (x = nil) or (x = 3); print x;
P199 ==
    [family |-> "logical",
     source |->
        <<"v", "a", "r", " ", "x", " ", "=", " ", "1", ";", " ", "p", "r", "i", "n",
        "t", " ", "(", "x", " ", "=", " ", "n", "i", "l", ")", " ", "o", "r", " ", "(",
        "x", " ", "=", " ", "3", ")", ";", " ", "p", "r", "i", "n", "t", " ", "x",
        ";">>,
     want_out |-> <<<<"3">>, <<"3">>>>,
     want_kind |-> "Ok",
     never |-> {},
     declarations |->
        <<VariableDeclaration(Token_new(4, 5, "Identifier"), LiteralNumber(Token_new(8,
        9, "Number"))),
        StatementDeclaration(PrintStatement(LogicalExpression(GroupingExpression(AssignmentExpression(Token_new(18,
        19, "Identifier"), LiteralNil(Span_new(22, 25)))),
        GroupingExpression(AssignmentExpression(Token_new(31, 32, "Identifier"),
        LiteralNumber(Token_new(35, 36, "Number")))), Token_new(27, 29, "Or")))),
        StatementDeclaration(PrintStatement(VariableExpression(Token_new(45, 46,
        "Identifier"))))>>]

\* fun f() {} var x = 0; f or (x = 5); print x;
P200 ==
    [family |-> "logical",
     source |->
        <<"f", "u", "n", " ", "f", "(", ")", " ", "{", "}", " ", "v", "a", "r", " ",
        "x", " ", "=", " ", "0", ";", " ", "f", " ", "o", "r", " ", "(", "x", " ", "=",
        " ", "5", ")", ";", " ", "p", "r", "i", "n", "t", " ", "x", ";">>,
     want_out |-> <<<<"0">>>>,
     want_kind |-> "Ok",
     never |-> {5},
     declarations |->
        <<FunctionDeclaration(Token_new(4, 5, "Identifier"), <<>>, <<>>),
        VariableDeclaration(Token_new(15, 16, "Identifier"),
        LiteralNumber(Token_new(19, 20, "Number"))),
        StatementDeclaration(ExpressionStatement(LogicalExpression(VariableExpression(Token_new(22,
        23, "Identifier")), GroupingExpression(AssignmentExpression(Token_new(28, 29,
        "Identifier"), LiteralNumber(Token_new(32, 33, "Number")))), Token_new(24, 26,
        "Or")))), StatementDeclaration(PrintStatement(VariableExpression(Token_new(42,
        43, "Identifier"))))>>]

\* fun f() {} var x = 0; f and (x = 5); print x;
P201 ==
    [family |-> "logical",
     source |->
        <<"f", "u", "n", " ", "f", "(", ")", " ", "{", "}", " ", "v", "a", "r", " ",
        "x", " ", "=", " ", "0", ";", " ", "f", " ", "a", "n", "d", " ", "(", "x", " ",
        "=", " ", "5", ")", ";", " ", "p", "r", "i", "n", "t", " ", "x", ";">>,
     want_out |-> <<<<"5">>>>,
     want_kind |-> "Ok",
     never |-> {},
     declarations |->
        <<FunctionDeclaration(Token_new(4, 5, "Identifier"), <<>>, <<>>),
        VariableDeclaration(Token_new(15, 16, "Identifier"),
        LiteralNumber(Token_new(19, 20, "Number"))),
        StatementDeclaration(ExpressionStatement(LogicalExpression(VariableExpression(Token_new(22,
        23, "Identifier")), GroupingExpression(AssignmentExpression(Token_new(29, 30,
        "Identifier"), LiteralNumber(Token_new(33, 34, "Number")))), Token_new(24, 27,
        "And")))), StatementDeclaration(PrintStatement(VariableExpression(Token_new(43,
        44, "Identifier"))))>>]

\* print nil or false or 3;
P202 ==
    [family |-> "logical",
     source |->
        <<"p", "r", "i", "n", "t", " ", "n", "i", "l", " ", "o", "r", " ", "f", "a",
        "l", "s", "e", " ", "o", "r", " ", "3", ";">>,
     want_out |-> <<<<"3">>>>,
     want_kind |-> "Ok",
     never |-> {},
     declarations |->
        <<StatementDeclaration(PrintStatement(LogicalExpression(LogicalExpression(LiteralNil(Span_new(6,
        9)), LiteralBoolean(Span_new(13, 18), FALSE), Token_new(10, 12, "Or")),
        LiteralNumber(Token_new(22, 23, "Number")), Token_new(19, 21, "Or"))))>>]

\* print 1 and nil and q;
P203 ==
    [family |-> "logical",
     source |->
        <<"p", "r", "i", "n", "t", " ", "1", " ", "a", "n", "d", " ", "n", "i", "l",
        " ", "a", "n", "d", " ", "q", ";">>,
     want_out |-> <<<<"n", "i", "l">>>>,
     want_kind |-> "Ok",
     never |-> {},
     declarations |->
        <<StatementDeclaration(PrintStatement(LogicalExpression(LogicalExpression(LiteralNumber(Token_new(6,
        7, "Number")), LiteralNil(Span_new(12, 15)), Token_new(8, 11, "And")),
        VariableExpression(Token_new(20, 21, "Identifier")), Token_new(16, 19,
        "And"))))>>]

\* print 1 and 2 or q;
P204 ==
    [family |-> "logical",
     source |->
        <<"p", "r", "i", "n", "t", " ", "1", " ", "a", "n", "d", " ", "2", " ", "o",
        "r", " ", "q", ";">>,
     want_out |-> <<<<"2">>>>,
     want_kind |-> "Ok",
     never |-> {},
     declarations |->
        <<StatementDeclaration(PrintStatement(LogicalExpression(LogicalExpression(LiteralNumber(Token_new(6,
        7, "Number")), LiteralNumber(Token_new(12, 13, "Number")), Token_new(8, 11,
        "And")), VariableExpression(Token_new(17, 18, "Identifier")), Token_new(14, 16,
        "Or"))))>>]

\* print false or q;
P205 ==
    [family |-> "logical",
     source |->
        <<"p", "r", "i", "n", "t", " ", "f", "a", "l", "s", "e", " ", "o", "r", " ",
        "q", ";">>,
     want_out |-> <<>>,
     want_kind |-> "Err",
     never |-> {},
     declarations |->
        <<StatementDeclaration(PrintStatement(LogicalExpression(LiteralBoolean(Span_new(6,
        11), FALSE), VariableExpression(Token_new(15, 16, "Identifier")), Token_new(12,
        14, "Or"))))>>]

\* print 1 and q;
P206 ==
    [family |-> "logical",
     source |->
        <<"p", "r", "i", "n", "t", " ", "1", " ", "a", "n", "d", " ", "q", ";">>,
     want_out |-> <<>>,
     want_kind |-> "Err",
     never |-> {},
     declarations |->
        <<StatementDeclaration(PrintStatement(LogicalExpression(LiteralNumber(Token_new(6,
        7, "Number")), VariableExpression(Token_new(12, 13, "Identifier")),
        Token_new(8, 11, "And"))))>>]

\* print q or 1;
P207 ==
    [family |-> "logical",
     source |->
        <<"p", "r", "i", "n", "t", " ", "q", " ", "o", "r", " ", "1", ";">>,
     want_out |-> <<>>,
     want_kind |-> "Err",
     never |-> {},
     declarations |->
        <<StatementDeclaration(PrintStatement(LogicalExpression(VariableExpression(Token_new(6,
        7, "Identifier")), LiteralNumber(Token_new(11, 12, "Number")), Token_new(8, 10,
        "Or"))))>>]

\* var x = 0; print q and (x = 5);
P208 ==
    [family |-> "logical",
     source |->
        <<"v", "a", "r", " ", "x", " ", "=", " ", "0", ";", " ", "p", "r", "i", "n",
        "t", " ", "q", " ", "a", "n", "d", " ", "(", "x", " ", "=", " ", "5", ")",
        ";">>,
     want_out |-> <<>>,
     want_kind |-> "Err",
     never |-> {5},
     declarations |->
        <<VariableDeclaration(Token_new(4, 5, "Identifier"), LiteralNumber(Token_new(8,
        9, "Number"))),
        StatementDeclaration(PrintStatement(LogicalExpression(VariableExpression(Token_new(17,
        18, "Identifier")), GroupingExpression(AssignmentExpression(Token_new(24, 25,
        "Identifier"), LiteralNumber(Token_new(28, 29, "Number")))), Token_new(19, 22,
        "And"))))>>]

\* fun f() { print 1; return 6; } fun g() { print 2; return 3; } print f() + g();
P209 ==
    [family |-> "operand_order",
     source |->
        <<"f", "u", "n", " ", "f", "(", ")", " ", "{", " ", "p", "r", "i", "n", "t",
        " ", "1", ";", " ", "r", "e", "t", "u", "r", "n", " ", "6", ";", " ", "}", " ",
        "f", "u", "n", " ", "g", "(", ")", " ", "{", " ", "p", "r", "i", "n", "t", " ",
        "2", ";", " ", "r", "e", "t", "u", "r", "n", " ", "3", ";", " ", "}", " ", "p",
        "r", "i", "n", "t", " ", "f", "(", ")", " ", "+", " ", "g", "(", ")", ";">>,
     want_out |-> <<<<"1">>, <<"2">>, <<"9">>>>,
     declarations |->
        <<FunctionDeclaration(Token_new(4, 5, "Identifier"), <<>>,
        <<StatementDeclaration(PrintStatement(LiteralNumber(Token_new(16, 17,
        "Number")))), StatementDeclaration(ReturnStatement(LiteralNumber(Token_new(26,
        27, "Number"))))>>), FunctionDeclaration(Token_new(35, 36, "Identifier"), <<>>,
        <<StatementDeclaration(PrintStatement(LiteralNumber(Token_new(47, 48,
        "Number")))), StatementDeclaration(ReturnStatement(LiteralNumber(Token_new(57,
        58, "Number"))))>>),
        StatementDeclaration(PrintStatement(BinaryExpression(CallExpression(VariableExpression(Token_new(68,
        69, "Identifier")), Token_new(70, 71, "RightParen"), <<>>),
        CallExpression(VariableExpression(Token_new(74, 75, "Identifier")),
        Token_new(76, 77, "RightParen"), <<>>), Token_new(72, 73, "Plus"))))>>]

\* fun f() { print 1; return 6; } fun g() { print 2; return 3; } print f() - g();
P210 ==
    [family |-> "operand_order",
     source |->
        <<"f", "u", "n", " ", "f", "(", ")", " ", "{", " ", "p", "r", "i", "n", "t",
        " ", "1", ";", " ", "r", "e", "t", "u", "r", "n", " ", "6", ";", " ", "}", " ",
        "f", "u", "n", " ", "g", "(", ")", " ", "{", " ", "p", "r", "i", "n", "t", " ",
        "2", ";", " ", "r", "e", "t", "u", "r", "n", " ", "3", ";", " ", "}", " ", "p",
        "r", "i", "n", "t", " ", "f", "(", ")", " ", "-", " ", "g", "(", ")", ";">>,
     want_out |-> <<<<"1">>, <<"2">>, <<"3">>>>,
     declarations |->
        <<FunctionDeclaration(Token_new(4, 5, "Identifier"), <<>>,
        <<StatementDeclaration(PrintStatement(LiteralNumber(Token_new(16, 17,
        "Number")))), StatementDeclaration(ReturnStatement(LiteralNumber(Token_new(26,
        27, "Number"))))>>), FunctionDeclaration(Token_new(35, 36, "Identifier"), <<>>,
        <<StatementDeclaration(PrintStatement(LiteralNumber(Token_new(47, 48,
        "Number")))), StatementDeclaration(ReturnStatement(LiteralNumber(Token_new(57,
        58, "Number"))))>>),
        StatementDeclaration(PrintStatement(BinaryExpression(CallExpression(VariableExpression(Token_new(68,
        69, "Identifier")), Token_new(70, 71, "RightParen"), <<>>),
        CallExpression(VariableExpression(Token_new(74, 75, "Identifier")),
        Token_new(76, 77, "RightParen"), <<>>), Token_new(72, 73, "Minus"))))>>]

\* fun f() { print 1; return 6; } fun g() { print 2; return 3; } print f() * g();
P211 ==
    [family |-> "operand_order",
     source |->
        <<"f", "u", "n", " ", "f", "(", ")", " ", "{", " ", "p", "r", "i", "n", "t",
        " ", "1", ";", " ", "r", "e", "t", "u", "r", "n", " ", "6", ";", " ", "}", " ",
        "f", "u", "n", " ", "g", "(", ")", " ", "{", " ", "p", "r", "i", "n", "t", " ",
        "2", ";", " ", "r", "e", "t", "u", "r", "n", " ", "3", ";", " ", "}", " ", "p",
        "r", "i", "n", "t", " ", "f", "(", ")", " ", "*", " ", "g", "(", ")", ";">>,
     want_out |-> <<<<"1">>, <<"2">>, <<"1", "8">>>>,
     declarations |->
        <<FunctionDeclaration(Token_new(4, 5, "Identifier"), <<>>,
        <<StatementDeclaration(PrintStatement(LiteralNumber(Token_new(16, 17,
        "Number")))), StatementDeclaration(ReturnStatement(LiteralNumber(Token_new(26,
        27, "Number"))))>>), FunctionDeclaration(Token_new(35, 36, "Identifier"), <<>>,
        <<StatementDeclaration(PrintStatement(LiteralNumber(Token_new(47, 48,
        "Number")))), StatementDeclaration(ReturnStatement(LiteralNumber(Token_new(57,
        58, "Number"))))>>),
        StatementDeclaration(PrintStatement(BinaryExpression(CallExpression(VariableExpression(Token_new(68,
        69, "Identifier")), Token_new(70, 71, "RightParen"), <<>>),
        CallExpression(VariableExpression(Token_new(74, 75, "Identifier")),
        Token_new(76, 77, "RightParen"), <<>>), Token_new(72, 73, "Star"))))>>]

\* fun f() { print 1; return 6; } fun g() { print 2; return 3; } print f() / g();
P212 ==
    [family |-> "operand_order",
     source |->
        <<"f", "u", "n", " ", "f", "(", ")", " ", "{", " ", "p", "r", "i", "n", "t",
        " ", "1", ";", " ", "r", "e", "t", "u", "r", "n", " ", "6", ";", " ", "}", " ",
        "f", "u", "n", " ", "g", "(", ")", " ", "{", " ", "p", "r", "i", "n", "t", " ",
        "2", ";", " ", "r", "e", "t", "u", "r", "n", " ", "3", ";", " ", "}", " ", "p",
        "r", "i", "n", "t", " ", "f", "(", ")", " ", "/", " ", "g", "(", ")", ";">>,
     want_out |-> <<<<"1">>, <<"2">>, <<"2">>>>,
     declarations |->
        <<FunctionDeclaration(Token_new(4, 5, "Identifier"), <<>>,
        <<StatementDeclaration(PrintStatement(LiteralNumber(Token_new(16, 17,
        "Number")))), StatementDeclaration(ReturnStatement(LiteralNumber(Token_new(26,
        27, "Number"))))>>), FunctionDeclaration(Token_new(35, 36, "Identifier"), <<>>,
        <<StatementDeclaration(PrintStatement(LiteralNumber(Token_new(47, 48,
        "Number")))), StatementDeclaration(ReturnStatement(LiteralNumber(Token_new(57,
        58, "Number"))))>>),
        StatementDeclaration(PrintStatement(BinaryExpression(CallExpression(VariableExpression(Token_new(68,
        69, "Identifier")), Token_new(70, 71, "RightParen"), <<>>),
        CallExpression(VariableExpression(Token_new(74, 75, "Identifier")),
        Token_new(76, 77, "RightParen"), <<>>), Token_new(72, 73, "Slash"))))>>]

\* fun f() { print 1; return 6; } fun g() { print 2; return 3; } print f() < g();
P213 ==
    [family |-> "operand_order",
     source |->
        <<"f", "u", "n", " ", "f", "(", ")", " ", "{", " ", "p", "r", "i", "n", "t",
        " ", "1", ";", " ", "r", "e", "t", "u", "r", "n", " ", "6", ";", " ", "}", " ",
        "f", "u", "n", " ", "g", "(", ")", " ", "{", " ", "p", "r", "i", "n", "t", " ",
        "2", ";", " ", "r", "e", "t", "u", "r", "n", " ", "3", ";", " ", "}", " ", "p",
        "r", "i", "n", "t", " ", "f", "(", ")", " ", "<", " ", "g", "(", ")", ";">>,
     want_out |-> <<<<"1">>, <<"2">>, <<"f", "a", "l", "s", "e">>>>,
     declarations |->
        <<FunctionDeclaration(Token_new(4, 5, "Identifier"), <<>>,
        <<StatementDeclaration(PrintStatement(LiteralNumber(Token_new(16, 17,
        "Number")))), StatementDeclaration(ReturnStatement(LiteralNumber(Token_new(26,
        27, "Number"))))>>), FunctionDeclaration(Token_new(35, 36, "Identifier"), <<>>,
        <<StatementDeclaration(PrintStatement(LiteralNumber(Token_new(47, 48,
        "Number")))), StatementDeclaration(ReturnStatement(LiteralNumber(Token_new(57,
        58, "Number"))))>>),
        StatementDeclaration(PrintStatement(BinaryExpression(CallExpression(VariableExpression(Token_new(68,
        69, "Identifier")), Token_new(70, 71, "RightParen"), <<>>),
        CallExpression(VariableExpression(Token_new(74, 75, "Identifier")),
        Token_new(76, 77, "RightParen"), <<>>), Token_new(72, 73, "Less"))))>>]

\* fun f() { print 1; return 6; } fun g() { print 2; return 3; } print f() <= g();
P214 ==
    [family |-> "operand_order",
     source |->
        <<"f", "u", "n", " ", "f", "(", ")", " ", "{", " ", "p", "r", "i", "n", "t",
        " ", "1", ";", " ", "r", "e", "t", "u", "r", "n", " ", "6", ";", " ", "}", " ",
        "f", "u", "n", " ", "g", "(", ")", " ", "{", " ", "p", "r", "i", "n", "t", " ",
        "2", ";", " ", "r", "e", "t", "u", "r", "n", " ", "3", ";", " ", "}", " ", "p",
        "r", "i", "n", "t", " ", "f", "(", ")", " ", "<", "=", " ", "g", "(", ")",
        ";">>,
     want_out |-> <<<<"1">>, <<"2">>, <<"f", "a", "l", "s", "e">>>>,
     declarations |->
        <<FunctionDeclaration(Token_new(4, 5, "Identifier"), <<>>,
        <<StatementDeclaration(PrintStatement(LiteralNumber(Token_new(16, 17,
        "Number")))), StatementDeclaration(ReturnStatement(LiteralNumber(Token_new(26,
        27, "Number"))))>>), FunctionDeclaration(Token_new(35, 36, "Identifier"), <<>>,
        <<StatementDeclaration(PrintStatement(LiteralNumber(Token_new(47, 48,
        "Number")))), StatementDeclaration(ReturnStatement(LiteralNumber(Token_new(57,
        58, "Number"))))>>),
        StatementDeclaration(PrintStatement(BinaryExpression(CallExpression(VariableExpression(Token_new(68,
        69, "Identifier")), Token_new(70, 71, "RightParen"), <<>>),
        CallExpression(VariableExpression(Token_new(75, 76, "Identifier")),
        Token_new(77, 78, "RightParen"), <<>>), Token_new(72, 74, "LessEqual"))))>>]

\* fun f() { print 1; return 6; } fun g() { print 2; return 3; } print f() > g();
P215 ==
    [family |-> "operand_order",
     source |->
        <<"f", "u", "n", " ", "f", "(", ")", " ", "{", " ", "p", "r", "i", "n", "t",
        " ", "1", ";", " ", "r", "e", "t", "u", "r", "n", " ", "6", ";", " ", "}", " ",
        "f", "u", "n", " ", "g", "(", ")", " ", "{", " ", "p", "r", "i", "n", "t", " ",
        "2", ";", " ", "r", "e", "t", "u", "r", "n", " ", "3", ";", " ", "}", " ", "p",
        "r", "i", "n", "t", " ", "f", "(", ")", " ", ">", " ", "g", "(", ")", ";">>,
     want_out |-> <<<<"1">>, <<"2">>, <<"t", "r", "u", "e">>>>,
     declarations |->
        <<FunctionDeclaration(Token_new(4, 5, "Identifier"), <<>>,
        <<StatementDeclaration(PrintStatement(LiteralNumber(Token_new(16, 17,
        "Number")))), StatementDeclaration(ReturnStatement(LiteralNumber(Token_new(26,
        27, "Number"))))>>), FunctionDeclaration(Token_new(35, 36, "Identifier"), <<>>,
        <<StatementDeclaration(PrintStatement(LiteralNumber(Token_new(47, 48,
        "Number")))), StatementDeclaration(ReturnStatement(LiteralNumber(Token_new(57,
        58, "Number"))))>>),
        StatementDeclaration(PrintStatement(BinaryExpression(CallExpression(VariableExpression(Token_new(68,
        69, "Identifier")), Token_new(70, 71, "RightParen"), <<>>),
        CallExpression(VariableExpression(Token_new(74, 75, "Identifier")),
        Token_new(76, 77, "RightParen"), <<>>), Token_new(72, 73, "Greater"))))>>]

\* fun f() { print 1; return 6; } fun g() { print 2; return 3; } print f() >= g();
P216 ==
    [family |-> "operand_order",
     source |->
        <<"f", "u", "n", " ", "f", "(", ")", " ", "{", " ", "p", "r", "i", "n", "t",
        " ", "1", ";", " ", "r", "e", "t", "u", "r", "n", " ", "6", ";", " ", "}", " ",
        "f", "u", "n", " ", "g", "(", ")", " ", "{", " ", "p", "r", "i", "n", "t", " ",
        "2", ";", " ", "r", "e", "t", "u", "r", "n", " ", "3", ";", " ", "}", " ", "p",
        "r", "i", "n", "t", " ", "f", "(", ")", " ", ">", "=", " ", "g", "(", ")",
        ";">>,
     want_out |-> <<<<"1">>, <<"2">>, <<"t", "r", "u", "e">>>>,
     declarations |->
        <<FunctionDeclaration(Token_new(4, 5, "Identifier"), <<>>,
        <<StatementDeclaration(PrintStatement(LiteralNumber(Token_new(16, 17,
        "Number")))), StatementDeclaration(ReturnStatement(LiteralNumber(Token_new(26,
        27, "Number"))))>>), FunctionDeclaration(Token_new(35, 36, "Identifier"), <<>>,
        <<StatementDeclaration(PrintStatement(LiteralNumber(Token_new(47, 48,
        "Number")))), StatementDeclaration(ReturnStatement(LiteralNumber(Token_new(57,
        58, "Number"))))>>),
        StatementDeclaration(PrintStatement(BinaryExpression(CallExpression(VariableExpression(Token_new(68,
        69, "Identifier")), Token_new(70, 71, "RightParen"), <<>>),
        CallExpression(VariableExpression(Token_new(75, 76, "Identifier")),
        Token_new(77, 78, "RightParen"), <<>>), Token_new(72, 74, "GreaterEqual"))))>>]

\* fun f() { print 1; return 6; } fun g() { print 2; return 3; } print f() == g();
P217 ==
    [family |-> "operand_order",
     source |->
        <<"f", "u", "n", " ", "f", "(", ")", " ", "{", " ", "p", "r", "i", "n", "t",
        " ", "1", ";", " ", "r", "e", "t", "u", "r", "n", " ", "6", ";", " ", "}", " ",
        "f", "u", "n", " ", "g", "(", ")", " ", "{", " ", "p", "r", "i", "n", "t", " ",
        "2", ";", " ", "r", "e", "t", "u", "r", "n", " ", "3", ";", " ", "}", " ", "p",
        "r", "i", "n", "t", " ", "f", "(", ")", " ", "=", "=", " ", "g", "(", ")",
        ";">>,
     want_out |-> <<<<"1">>, <<"2">>, <<"f", "a", "l", "s", "e">>>>,
     declarations |->
        <<FunctionDeclaration(Token_new(4, 5, "Identifier"), <<>>,
        <<StatementDeclaration(PrintStatement(LiteralNumber(Token_new(16, 17,
        "Number")))), StatementDeclaration(ReturnStatement(LiteralNumber(Token_new(26,
        27, "Number"))))>>), FunctionDeclaration(Token_new(35, 36, "Identifier"), <<>>,
        <<StatementDeclaration(PrintStatement(LiteralNumber(Token_new(47, 48,
        "Number")))), StatementDeclaration(ReturnStatement(LiteralNumber(Token_new(57,
        58, "Number"))))>>),
        StatementDeclaration(PrintStatement(BinaryExpression(CallExpression(VariableExpression(Token_new(68,
        69, "Identifier")), Token_new(70, 71, "RightParen"), <<>>),
        CallExpression(VariableExpression(Token_new(75, 76, "Identifier")),
        Token_new(77, 78, "RightParen"), <<>>), Token_new(72, 74, "EqualEqual"))))>>]

\* fun f() { print 1; return 6; } fun g() { print 2; return 3; } print f() != g();
P218 ==
    [family |-> "operand_order",
     source |->
        <<"f", "u", "n", " ", "f", "(", ")", " ", "{", " ", "p", "r", "i", "n", "t",
        " ", "1", ";", " ", "r", "e", "t", "u", "r", "n", " ", "6", ";", " ", "}", " ",
        "f", "u", "n", " ", "g", "(", ")", " ", "{", " ", "p", "r", "i", "n", "t", " ",
        "2", ";", " ", "r", "e", "t", "u", "r", "n", " ", "3", ";", " ", "}", " ", "p",
        "r", "i", "n", "t", " ", "f", "(", ")", " ", "!", "=", " ", "g", "(", ")",
        ";">>,
     want_out |-> <<<<"1">>, <<"2">>, <<"t", "r", "u", "e">>>>,
     declarations |->
        <<FunctionDeclaration(Token_new(4, 5, "Identifier"), <<>>,
        <<StatementDeclaration(PrintStatement(LiteralNumber(Token_new(16, 17,
        "Number")))), StatementDeclaration(ReturnStatement(LiteralNumber(Token_new(26,
        27, "Number"))))>>), FunctionDeclaration(Token_new(35, 36, "Identifier"), <<>>,
        <<StatementDeclaration(PrintStatement(LiteralNumber(Token_new(47, 48,
        "Number")))), StatementDeclaration(ReturnStatement(LiteralNumber(Token_new(57,
        58, "Number"))))>>),
        StatementDeclaration(PrintStatement(BinaryExpression(CallExpression(VariableExpression(Token_new(68,
        69, "Identifier")), Token_new(70, 71, "RightParen"), <<>>),
        CallExpression(VariableExpression(Token_new(75, 76, "Identifier")),
        Token_new(77, 78, "RightParen"), <<>>), Token_new(72, 74, "BangEqual"))))>>]

\* fun f() { print 1; return 6; } fun g() { print 2; return 3; } print f() - g() - f();
P219 ==
    [family |-> "operand_order",
     source |->
        <<"f", "u", "n", " ", "f", "(", ")", " ", "{", " ", "p", "r", "i", "n", "t",
        " ", "1", ";", " ", "r", "e", "t", "u", "r", "n", " ", "6", ";", " ", "}", " ",
        "f", "u", "n", " ", "g", "(", ")", " ", "{", " ", "p", "r", "i", "n", "t", " ",
        "2", ";", " ", "r", "e", "t", "u", "r", "n", " ", "3", ";", " ", "}", " ", "p",
        "r", "i", "n", "t", " ", "f", "(", ")", " ", "-", " ", "g", "(", ")", " ", "-",
        " ", "f", "(", ")", ";">>,
     want_out |-> <<<<"1">>, <<"2">>, <<"1">>, <<"-", "3">>>>,
     declarations |->
        <<FunctionDeclaration(Token_new(4, 5, "Identifier"), <<>>,
        <<StatementDeclaration(PrintStatement(LiteralNumber(Token_new(16, 17,
        "Number")))), StatementDeclaration(ReturnStatement(LiteralNumber(Token_new(26,
        27, "Number"))))>>), FunctionDeclaration(Token_new(35, 36, "Identifier"), <<>>,
        <<StatementDeclaration(PrintStatement(LiteralNumber(Token_new(47, 48,
        "Number")))), StatementDeclaration(ReturnStatement(LiteralNumber(Token_new(57,
        58, "Number"))))>>),
        StatementDeclaration(PrintStatement(BinaryExpression(BinaryExpression(CallExpression(VariableExpression(Token_new(68,
        69, "Identifier")), Token_new(70, 71, "RightParen"), <<>>),
        CallExpression(VariableExpression(Token_new(74, 75, "Identifier")),
        Token_new(76, 77, "RightParen"), <<>>), Token_new(72, 73, "Minus")),
        CallExpression(VariableExpression(Token_new(80, 81, "Identifier")),
        Token_new(82, 83, "RightParen"), <<>>), Token_new(78, 79, "Minus"))))>>]

\* fun f() { print 1; return 6; } fun g() { print 2; return 3; } print g() * g() + f() * f();
P220 ==
    [family |-> "operand_order",
     source |->
        <<"f", "u", "n", " ", "f", "(", ")", " ", "{", " ", "p", "r", "i", "n", "t",
        " ", "1", ";", " ", "r", "e", "t", "u", "r", "n", " ", "6", ";", " ", "}", " ",
        "f", "u", "n", " ", "g", "(", ")", " ", "{", " ", "p", "r", "i", "n", "t", " ",
        "2", ";", " ", "r", "e", "t", "u", "r", "n", " ", "3", ";", " ", "}", " ", "p",
        "r", "i", "n", "t", " ", "g", "(", ")", " ", "*", " ", "g", "(", ")", " ", "+",
        " ", "f", "(", ")", " ", "*", " ", "f", "(", ")", ";">>,
     want_out |-> <<<<"2">>, <<"2">>, <<"1">>, <<"1">>, <<"4", "5">>>>,
     declarations |->
        <<FunctionDeclaration(Token_new(4, 5, "Identifier"), <<>>,
        <<StatementDeclaration(PrintStatement(LiteralNumber(Token_new(16, 17,
        "Number")))), StatementDeclaration(ReturnStatement(LiteralNumber(Token_new(26,
        27, "Number"))))>>), FunctionDeclaration(Token_new(35, 36, "Identifier"), <<>>,
        <<StatementDeclaration(PrintStatement(LiteralNumber(Token_new(47, 48,
        "Number")))), StatementDeclaration(ReturnStatement(LiteralNumber(Token_new(57,
        58, "Number"))))>>),
        StatementDeclaration(PrintStatement(BinaryExpression(BinaryExpression(CallExpression(VariableExpression(Token_new(68,
        69, "Identifier")), Token_new(70, 71, "RightParen"), <<>>),
        CallExpression(VariableExpression(Token_new(74, 75, "Identifier")),
        Token_new(76, 77, "RightParen"), <<>>), Token_new(72, 73, "Star")),
        BinaryExpression(CallExpression(VariableExpression(Token_new(80, 81,
        "Identifier")), Token_new(82, 83, "RightParen"), <<>>),
        CallExpression(VariableExpression(Token_new(86, 87, "Identifier")),
        Token_new(88, 89, "RightParen"), <<>>), Token_new(84, 85, "Star")),
        Token_new(78, 79, "Plus"))))>>]

\* var x = 1; { var y = 2; { print q; } } print "D";
P221 ==
    [family |-> "balance",
     source |->
        <<"v", "a", "r", " ", "x", " ", "=", " ", "1", ";", " ", "{", " ", "v", "a",
        "r", " ", "y", " ", "=", " ", "2", ";", " ", "{", " ", "p", "r", "i", "n", "t",
        " ", "q", ";", " ", "}", " ", "}", " ", "p", "r", "i", "n", "t", " ", "\"",
        "D", "\"", ";">>,
     want_kind |-> "Err",
     declarations |->
        <<VariableDeclaration(Token_new(4, 5, "Identifier"), LiteralNumber(Token_new(8,
        9, "Number"))),
        StatementDeclaration(BlockStatement(<<VariableDeclaration(Token_new(17, 18,
        "Identifier"), LiteralNumber(Token_new(21, 22, "Number"))),
        StatementDeclaration(BlockStatement(<<StatementDeclaration(PrintStatement(VariableExpression(Token_new(32,
        33, "Identifier"))))>>))>>)),
        StatementDeclaration(PrintStatement(LiteralString(Token_new(45, 48,
        "String_"))))>>]

\* var x = 1; fun f() { var y = 2; { return y; } } print f(); print x;
P222 ==
    [family |-> "balance",
     source |->
        <<"v", "a", "r", " ", "x", " ", "=", " ", "1", ";", " ", "f", "u", "n", " ",
        "f", "(", ")", " ", "{", " ", "v", "a", "r", " ", "y", " ", "=", " ", "2", ";",
        " ", "{", " ", "r", "e", "t", "u", "r", "n", " ", "y", ";", " ", "}", " ", "}",
        " ", "p", "r", "i", "n", "t", " ", "f", "(", ")", ";", " ", "p", "r", "i", "n",
        "t", " ", "x", ";">>,
     want_kind |-> "Ok",
     declarations |->
        <<VariableDeclaration(Token_new(4, 5, "Identifier"), LiteralNumber(Token_new(8,
        9, "Number"))), FunctionDeclaration(Token_new(15, 16, "Identifier"), <<>>,
        <<VariableDeclaration(Token_new(25, 26, "Identifier"),
        LiteralNumber(Token_new(29, 30, "Number"))),
        StatementDeclaration(BlockStatement(<<StatementDeclaration(ReturnStatement(VariableExpression(Token_new(41,
        42, "Identifier"))))>>))>>),
        StatementDeclaration(PrintStatement(CallExpression(VariableExpression(Token_new(54,
        55, "Identifier")), Token_new(56, 57, "RightParen"), <<>>))),
        StatementDeclaration(PrintStatement(VariableExpression(Token_new(65, 66,
        "Identifier"))))>>]

\* var x = 1; fun f(a) { { print a - nil; } } { var x = 3; f(2); }
P223 ==
    [family |-> "balance",
     source |->
        <<"v", "a", "r", " ", "x", " ", "=", " ", "1", ";", " ", "f", "u", "n", " ",
        "f", "(", "a", ")", " ", "{", " ", "{", " ", "p", "r", "i", "n", "t", " ", "a",
        " ", "-", " ", "n", "i", "l", ";", " ", "}", " ", "}", " ", "{", " ", "v", "a",
        "r", " ", "x", " ", "=", " ", "3", ";", " ", "f", "(", "2", ")", ";", " ",
        "}">>,
     want_kind |-> "Err",
     declarations |->
        <<VariableDeclaration(Token_new(4, 5, "Identifier"), LiteralNumber(Token_new(8,
        9, "Number"))), FunctionDeclaration(Token_new(15, 16, "Identifier"),
        <<Token_new(17, 18, "Identifier")>>,
        <<StatementDeclaration(BlockStatement(<<StatementDeclaration(PrintStatement(BinaryExpression(VariableExpression(Token_new(30,
        31, "Identifier")), LiteralNil(Span_new(34, 37)), Token_new(32, 33,
        "Minus"))))>>))>>),
        StatementDeclaration(BlockStatement(<<VariableDeclaration(Token_new(49, 50,
        "Identifier"), LiteralNumber(Token_new(53, 54, "Number"))),
        StatementDeclaration(ExpressionStatement(CallExpression(VariableExpression(Token_new(56,
        57, "Identifier")), Token_new(59, 60, "RightParen"),
        <<LiteralNumber(Token_new(58, 59, "Number"))>>)))>>))>>]

\* var x = 1; { var x = 2; { return x; } }
P224 ==
    [family |-> "balance",
     source |->
        <<"v", "a", "r", " ", "x", " ", "=", " ", "1", ";", " ", "{", " ", "v", "a",
        "r", " ", "x", " ", "=", " ", "2", ";", " ", "{", " ", "r", "e", "t", "u", "r",
        "n", " ", "x", ";", " ", "}", " ", "}">>,
     want_kind |-> "Ok",
     declarations |->
        <<VariableDeclaration(Token_new(4, 5, "Identifier"), LiteralNumber(Token_new(8,
        9, "Number"))),
        StatementDeclaration(BlockStatement(<<VariableDeclaration(Token_new(17, 18,
        "Identifier"), LiteralNumber(Token_new(21, 22, "Number"))),
        StatementDeclaration(BlockStatement(<<StatementDeclaration(ReturnStatement(VariableExpression(Token_new(33,
        34, "Identifier"))))>>))>>))>>]

\* var x = 1; fun f() { while (true) { { return 3; } } } { var x = 5; print f(); } print x;
P225 ==
    [family |-> "balance",
     source |->
        <<"v", "a", "r", " ", "x", " ", "=", " ", "1", ";", " ", "f", "u", "n", " ",
        "f", "(", ")", " ", "{", " ", "w", "h", "i", "l", "e", " ", "(", "t", "r", "u",
        "e", ")", " ", "{", " ", "{", " ", "r", "e", "t", "u", "r", "n", " ", "3", ";",
        " ", "}", " ", "}", " ", "}", " ", "{", " ", "v", "a", "r", " ", "x", " ", "=",
        " ", "5", ";", " ", "p", "r", "i", "n", "t", " ", "f", "(", ")", ";", " ", "}",
        " ", "p", "r", "i", "n", "t", " ", "x", ";">>,
     want_kind |-> "Ok",
     declarations |->
        <<VariableDeclaration(Token_new(4, 5, "Identifier"), LiteralNumber(Token_new(8,
        9, "Number"))), FunctionDeclaration(Token_new(15, 16, "Identifier"), <<>>,
        <<StatementDeclaration(WhileStatement(LiteralBoolean(Span_new(28, 32), TRUE),
        BlockStatement(<<StatementDeclaration(BlockStatement(<<StatementDeclaration(ReturnStatement(LiteralNumber(Token_new(45,
        46, "Number"))))>>))>>)))>>),
        StatementDeclaration(BlockStatement(<<VariableDeclaration(Token_new(60, 61,
        "Identifier"), LiteralNumber(Token_new(64, 65, "Number"))),
        StatementDeclaration(PrintStatement(CallExpression(VariableExpression(Token_new(73,
        74, "Identifier")), Token_new(75, 76, "RightParen"), <<>>)))>>)),
        StatementDeclaration(PrintStatement(VariableExpression(Token_new(86, 87,
        "Identifier"))))>>]

\* var x = 1; fun f(n) { if (n == 0) return q; { var x = n; return f(n - 1); } } { f(2); }
P226 ==
    [family |-> "balance",
     source |->
        <<"v", "a", "r", " ", "x", " ", "=", " ", "1", ";", " ", "f", "u", "n", " ",
        "f", "(", "n", ")", " ", "{", " ", "i", "f", " ", "(", "n", " ", "=", "=", " ",
        "0", ")", " ", "r", "e", "t", "u", "r", "n", " ", "q", ";", " ", "{", " ", "v",
        "a", "r", " ", "x", " ", "=", " ", "n", ";", " ", "r", "e", "t", "u", "r", "n",
        " ", "f", "(", "n", " ", "-", " ", "1", ")", ";", " ", "}", " ", "}", " ", "{",
        " ", "f", "(", "2", ")", ";", " ", "}">>,
     want_kind |-> "Err",
     declarations |->
        <<VariableDeclaration(Token_new(4, 5, "Identifier"), LiteralNumber(Token_new(8,
        9, "Number"))), FunctionDeclaration(Token_new(15, 16, "Identifier"),
        <<Token_new(17, 18, "Identifier")>>,
        <<StatementDeclaration(IfStatement(BinaryExpression(VariableExpression(Token_new(26,
        27, "Identifier")), LiteralNumber(Token_new(31, 32, "Number")), Token_new(28,
        30, "EqualEqual")), ReturnStatement(VariableExpression(Token_new(41, 42,
        "Identifier"))), NoneNode)),
        StatementDeclaration(BlockStatement(<<VariableDeclaration(Token_new(50, 51,
        "Identifier"), VariableExpression(Token_new(54, 55, "Identifier"))),
        StatementDeclaration(ReturnStatement(CallExpression(VariableExpression(Token_new(64,
        65, "Identifier")), Token_new(71, 72, "RightParen"),
        <<BinaryExpression(VariableExpression(Token_new(66, 67, "Identifier")),
        LiteralNumber(Token_new(70, 71, "Number")), Token_new(68, 69,
        "Minus"))>>)))>>))>>),
        StatementDeclaration(BlockStatement(<<StatementDeclaration(ExpressionStatement(CallExpression(VariableExpression(Token_new(80,
        81, "Identifier")), Token_new(83, 84, "RightParen"),
        <<LiteralNumber(Token_new(82, 83, "Number"))>>)))>>))>>]

\* var x = 1; fun f(a) { var x = a; } { f(1, 2); }
P227 ==
    [family |-> "balance",
     source |->
        <<"v", "a", "r", " ", "x", " ", "=", " ", "1", ";", " ", "f", "u", "n", " ",
        "f", "(", "a", ")", " ", "{", " ", "v", "a", "r", " ", "x", " ", "=", " ", "a",
        ";", " ", "}", " ", "{", " ", "f", "(", "1", ",", " ", "2", ")", ";", " ",
        "}">>,
     want_kind |-> "Err",
     declarations |->
        <<VariableDeclaration(Token_new(4, 5, "Identifier"), LiteralNumber(Token_new(8,
        9, "Number"))), FunctionDeclaration(Token_new(15, 16, "Identifier"),
        <<Token_new(17, 18, "Identifier")>>, <<VariableDeclaration(Token_new(26, 27,
        "Identifier"), VariableExpression(Token_new(30, 31, "Identifier")))>>),
        StatementDeclaration(BlockStatement(<<StatementDeclaration(ExpressionStatement(CallExpression(VariableExpression(Token_new(37,
        38, "Identifier")), Token_new(43, 44, "RightParen"),
        <<LiteralNumber(Token_new(39, 40, "Number")), LiteralNumber(Token_new(42, 43,
        "Number"))>>)))>>))>>]

\* var x = 1; { var x = 2; { var x = 3; } print x; } print x;
P228 ==
    [family |-> "balance",
     source |->
        <<"v", "a", "r", " ", "x", " ", "=", " ", "1", ";", " ", "{", " ", "v", "a",
        "r", " ", "x", " ", "=", " ", "2", ";", " ", "{", " ", "v", "a", "r", " ", "x",
        " ", "=", " ", "3", ";", " ", "}", " ", "p", "r", "i", "n", "t", " ", "x", ";",
        " ", "}", " ", "p", "r", "i", "n", "t", " ", "x", ";">>,
     want_kind |-> "Ok",
     declarations |->
        <<VariableDeclaration(Token_new(4, 5, "Identifier"), LiteralNumber(Token_new(8,
        9, "Number"))),
        StatementDeclaration(BlockStatement(<<VariableDeclaration(Token_new(17, 18,
        "Identifier"), LiteralNumber(Token_new(21, 22, "Number"))),
        StatementDeclaration(BlockStatement(<<VariableDeclaration(Token_new(30, 31,
        "Identifier"), LiteralNumber(Token_new(34, 35, "Number")))>>)),
        StatementDeclaration(PrintStatement(VariableExpression(Token_new(45, 46,
        "Identifier"))))>>)),
        StatementDeclaration(PrintStatement(VariableExpression(Token_new(56, 57,
        "Identifier"))))>>]

\* print x;
P229 ==
    [family |-> "probe",
     source |->
        <<"p", "r", "i", "n", "t", " ", "x", ";">>,
     declarations |->
        <<StatementDeclaration(PrintStatement(VariableExpression(Token_new(6, 7,
        "Identifier"))))>>]

\* var w = 1; print w;
P230 ==
    [family |-> "probe",
     source |->
        <<"v", "a", "r", " ", "w", " ", "=", " ", "1", ";", " ", "p", "r", "i", "n",
        "t", " ", "w", ";">>,
     declarations |->
        <<VariableDeclaration(Token_new(4, 5, "Identifier"), LiteralNumber(Token_new(8,
        9, "Number"))),
        StatementDeclaration(PrintStatement(VariableExpression(Token_new(17, 18,
        "Identifier"))))>>]

ProgramList ==
    <<P001, P002, P003, P004, P005, P006, P007, P008, P009, P010, P011, P012, P013,
    P014, P015, P016, P017, P018, P019, P020, P021, P022, P023, P024, P025, P026, P027,
    P028, P029, P030, P031, P032, P033, P034, P035, P036, P037, P038, P039, P040, P041,
    P042, P043, P044, P045, P046, P047, P048, P049, P050, P051, P052, P053, P054, P055,
    P056, P057, P058, P059, P060, P061, P062, P063, P064, P065, P066, P067, P068, P069,
    P070, P071, P072, P073, P074, P075, P076, P077, P078, P079, P080, P081, P082, P083,
    P084, P085, P086, P087, P088, P089, P090, P091, P092, P093, P094, P095, P096, P097,
    P098, P099, P100, P101, P102, P103, P104, P105, P106, P107, P108, P109, P110, P111,
    P112, P113, P114, P115, P116, P117, P118, P119, P120, P121, P122, P123, P124, P125,
    P126, P127, P128, P129, P130, P131, P132, P133, P134, P135, P136, P137, P138, P139,
    P140, P141, P142, P143, P144, P145, P146, P147, P148, P149, P150, P151, P152, P153,
    P154, P155, P156, P157, P158, P159, P160, P161, P162, P163, P164, P165, P166, P167,
    P168, P169, P170, P171, P172, P173, P174, P175, P176, P177, P178, P179, P180, P181,
    P182, P183, P184, P185, P186, P187, P188, P189, P190, P191, P192, P193, P194, P195,
    P196, P197, P198, P199, P200, P201, P202, P203, P204, P205, P206, P207, P208, P209,
    P210, P211, P212, P213, P214, P215, P216, P217, P218, P219, P220, P221, P222, P223,
    P224, P225, P226, P227, P228, P229, P230>>

\* ---- end of input programs ----

\* ---- input texts ----
\* for (var i = 0; i < 0; i = i + 1) print i;
T001 ==
    [family |-> "for_count",
     source |->
        <<"f", "o", "r", " ", "(", "v", "a", "r", " ", "i", " ", "=", " ", "0", ";",
        " ", "i", " ", "<", " ", "0", ";", " ", "i", " ", "=", " ", "i", " ", "+", " ",
        "1", ")", " ", "p", "r", "i", "n", "t", " ", "i", ";">>,
     n |-> 0,
     want_out |-> <<>>,
     twin_source |->
        <<"{", " ", "v", "a", "r", " ", "i", " ", "=", " ", "0", ";", " ", "w", "h",
        "i", "l", "e", " ", "(", "i", " ", "<", " ", "0", ")", " ", "{", " ", "p", "r",
        "i", "n", "t", " ", "i", ";", " ", "i", " ", "=", " ", "i", " ", "+", " ", "1",
        ";", " ", "}", " ", "}">>,
     twin |->
        <<StatementDeclaration(BlockStatement(<<VariableDeclaration(Token_new(6, 7,
        "Identifier"), LiteralNumber(Token_new(10, 11, "Number"))),
        StatementDeclaration(WhileStatement(BinaryExpression(VariableExpression(Token_new(20,
        21, "Identifier")), LiteralNumber(Token_new(24, 25, "Number")), Token_new(22,
        23, "Less")),
        BlockStatement(<<StatementDeclaration(PrintStatement(VariableExpression(Token_new(35,
        36, "Identifier")))),
        StatementDeclaration(ExpressionStatement(AssignmentExpression(Token_new(38, 39,
        "Identifier"), BinaryExpression(VariableExpression(Token_new(42, 43,
        "Identifier")), LiteralNumber(Token_new(46, 47, "Number")), Token_new(44, 45,
        "Plus")))))>>)))>>))>>]

\* for (var i = 0; i < 1; i = i + 1) print i;
T002 ==
    [family |-> "for_count",
     source |->
        <<"f", "o", "r", " ", "(", "v", "a", "r", " ", "i", " ", "=", " ", "0", ";",
        " ", "i", " ", "<", " ", "1", ";", " ", "i", " ", "=", " ", "i", " ", "+", " ",
        "1", ")", " ", "p", "r", "i", "n", "t", " ", "i", ";">>,
     n |-> 1,
     want_out |-> <<<<"0">>>>,
     twin_source |->
        <<"{", " ", "v", "a", "r", " ", "i", " ", "=", " ", "0", ";", " ", "w", "h",
        "i", "l", "e", " ", "(", "i", " ", "<", " ", "1", ")", " ", "{", " ", "p", "r",
        "i", "n", "t", " ", "i", ";", " ", "i", " ", "=", " ", "i", " ", "+", " ", "1",
        ";", " ", "}", " ", "}">>,
     twin |->
        <<StatementDeclaration(BlockStatement(<<VariableDeclaration(Token_new(6, 7,
        "Identifier"), LiteralNumber(Token_new(10, 11, "Number"))),
        StatementDeclaration(WhileStatement(BinaryExpression(VariableExpression(Token_new(20,
        21, "Identifier")), LiteralNumber(Token_new(24, 25, "Number")), Token_new(22,
        23, "Less")),
        BlockStatement(<<StatementDeclaration(PrintStatement(VariableExpression(Token_new(35,
        36, "Identifier")))),
        StatementDeclaration(ExpressionStatement(AssignmentExpression(Token_new(38, 39,
        "Identifier"), BinaryExpression(VariableExpression(Token_new(42, 43,
        "Identifier")), LiteralNumber(Token_new(46, 47, "Number")), Token_new(44, 45,
        "Plus")))))>>)))>>))>>]

\* for (var i = 0; i < 2; i = i + 1) print i;
T003 ==
    [family |-> "for_count",
     source |->
        <<"f", "o", "r", " ", "(", "v", "a", "r", " ", "i", " ", "=", " ", "0", ";",
        " ", "i", " ", "<", " ", "2", ";", " ", "i", " ", "=", " ", "i", " ", "+", " ",
        "1", ")", " ", "p", "r", "i", "n", "t", " ", "i", ";">>,
     n |-> 2,
     want_out |-> <<<<"0">>, <<"1">>>>,
     twin_source |->
        <<"{", " ", "v", "a", "r", " ", "i", " ", "=", " ", "0", ";", " ", "w", "h",
        "i", "l", "e", " ", "(", "i", " ", "<", " ", "2", ")", " ", "{", " ", "p", "r",
        "i", "n", "t", " ", "i", ";", " ", "i", " ", "=", " ", "i", " ", "+", " ", "1",
        ";", " ", "}", " ", "}">>,
     twin |->
        <<StatementDeclaration(BlockStatement(<<VariableDeclaration(Token_new(6, 7,
        "Identifier"), LiteralNumber(Token_new(10, 11, "Number"))),
        StatementDeclaration(WhileStatement(BinaryExpression(VariableExpression(Token_new(20,
        21, "Identifier")), LiteralNumber(Token_new(24, 25, "Number")), Token_new(22,
        23, "Less")),
        BlockStatement(<<StatementDeclaration(PrintStatement(VariableExpression(Token_new(35,
        36, "Identifier")))),
        StatementDeclaration(ExpressionStatement(AssignmentExpression(Token_new(38, 39,
        "Identifier"), BinaryExpression(VariableExpression(Token_new(42, 43,
        "Identifier")), LiteralNumber(Token_new(46, 47, "Number")), Token_new(44, 45,
        "Plus")))))>>)))>>))>>]

\* for (var i = 0; i < 3; i = i + 1) print i;
T004 ==
    [family |-> "for_count",
     source |->
        <<"f", "o", "r", " ", "(", "v", "a", "r", " ", "i", " ", "=", " ", "0", ";",
        " ", "i", " ", "<", " ", "3", ";", " ", "i", " ", "=", " ", "i", " ", "+", " ",
        "1", ")", " ", "p", "r", "i", "n", "t", " ", "i", ";">>,
     n |-> 3,
     want_out |-> <<<<"0">>, <<"1">>, <<"2">>>>,
     twin_source |->
        <<"{", " ", "v", "a", "r", " ", "i", " ", "=", " ", "0", ";", " ", "w", "h",
        "i", "l", "e", " ", "(", "i", " ", "<", " ", "3", ")", " ", "{", " ", "p", "r",
        "i", "n", "t", " ", "i", ";", " ", "i", " ", "=", " ", "i", " ", "+", " ", "1",
        ";", " ", "}", " ", "}">>,
     twin |->
        <<StatementDeclaration(BlockStatement(<<VariableDeclaration(Token_new(6, 7,
        "Identifier"), LiteralNumber(Token_new(10, 11, "Number"))),
        StatementDeclaration(WhileStatement(BinaryExpression(VariableExpression(Token_new(20,
        21, "Identifier")), LiteralNumber(Token_new(24, 25, "Number")), Token_new(22,
        23, "Less")),
        BlockStatement(<<StatementDeclaration(PrintStatement(VariableExpression(Token_new(35,
        36, "Identifier")))),
        StatementDeclaration(ExpressionStatement(AssignmentExpression(Token_new(38, 39,
        "Identifier"), BinaryExpression(VariableExpression(Token_new(42, 43,
        "Identifier")), LiteralNumber(Token_new(46, 47, "Number")), Token_new(44, 45,
        "Plus")))))>>)))>>))>>]

\* a or b and c;
T005 ==
    [family |-> "precedence",
     source |->
        <<"a", " ", "o", "r", " ", "b", " ", "a", "n", "d", " ", "c", ";">>,
     root |-> "Or",
     side |-> "right",
     child |-> "And"]

\* a and b or c;
T006 ==
    [family |-> "precedence",
     source |->
        <<"a", " ", "a", "n", "d", " ", "b", " ", "o", "r", " ", "c", ";">>,
     root |-> "Or",
     side |-> "left",
     child |-> "And"]

\* a or b == c;
T007 ==
    [family |-> "precedence",
     source |->
        <<"a", " ", "o", "r", " ", "b", " ", "=", "=", " ", "c", ";">>,
     root |-> "Or",
     side |-> "right",
     child |-> "EqualEqual"]

\* a == b or c;
T008 ==
    [family |-> "precedence",
     source |->
        <<"a", " ", "=", "=", " ", "b", " ", "o", "r", " ", "c", ";">>,
     root |-> "Or",
     side |-> "left",
     child |-> "EqualEqual"]

\* a or b != c;
T009 ==
    [family |-> "precedence",
     source |->
        <<"a", " ", "o", "r", " ", "b", " ", "!", "=", " ", "c", ";">>,
     root |-> "Or",
     side |-> "right",
     child |-> "BangEqual"]

\* a != b or c;
T010 ==
    [family |-> "precedence",
     source |->
        <<"a", " ", "!", "=", " ", "b", " ", "o", "r", " ", "c", ";">>,
     root |-> "Or",
     side |-> "left",
     child |-> "BangEqual"]

\* a or b < c;
T011 ==
    [family |-> "precedence",
     source |->
        <<"a", " ", "o", "r", " ", "b", " ", "<", " ", "c", ";">>,
     root |-> "Or",
     side |-> "right",
     child |-> "Less"]

\* a < b or c;
T012 ==
    [family |-> "precedence",
     source |->
        <<"a", " ", "<", " ", "b", " ", "o", "r", " ", "c", ";">>,
     root |-> "Or",
     side |-> "left",
     child |-> "Less"]

\* a or b <= c;
T013 ==
    [family |-> "precedence",
     source |->
        <<"a", " ", "o", "r", " ", "b", " ", "<", "=", " ", "c", ";">>,
     root |-> "Or",
     side |-> "right",
     child |-> "LessEqual"]

\* a <= b or c;
T014 ==
    [family |-> "precedence",
     source |->
        <<"a", " ", "<", "=", " ", "b", " ", "o", "r", " ", "c", ";">>,
     root |-> "Or",
     side |-> "left",
     child |-> "LessEqual"]

\* a or b > c;
T015 ==
    [family |-> "precedence",
     source |->
        <<"a", " ", "o", "r", " ", "b", " ", ">", " ", "c", ";">>,
     root |-> "Or",
     side |-> "right",
     child |-> "Greater"]

\* a > b or c;
T016 ==
    [family |-> "precedence",
     source |->
        <<"a", " ", ">", " ", "b", " ", "o", "r", " ", "c", ";">>,
     root |-> "Or",
     side |-> "left",
     child |-> "Greater"]

\* a or b >= c;
T017 ==
    [family |-> "precedence",
     source |->
        <<"a", " ", "o", "r", " ", "b", " ", ">", "=", " ", "c", ";">>,
     root |-> "Or",
     side |-> "right",
     child |-> "GreaterEqual"]

\* a >= b or c;
T018 ==
    [family |-> "precedence",
     source |->
        <<"a", " ", ">", "=", " ", "b", " ", "o", "r", " ", "c", ";">>,
     root |-> "Or",
     side |-> "left",
     child |-> "GreaterEqual"]

\* a or b + c;
T019 ==
    [family |-> "precedence",
     source |->
        <<"a", " ", "o", "r", " ", "b", " ", "+", " ", "c", ";">>,
     root |-> "Or",
     side |-> "right",
     child |-> "Plus"]

\* a + b or c;
T020 ==
    [family |-> "precedence",
     source |->
        <<"a", " ", "+", " ", "b", " ", "o", "r", " ", "c", ";">>,
     root |-> "Or",
     side |-> "left",
     child |-> "Plus"]

\* a or b - c;
T021 ==
    [family |-> "precedence",
     source |->
        <<"a", " ", "o", "r", " ", "b", " ", "-", " ", "c", ";">>,
     root |-> "Or",
     side |-> "right",
     child |-> "Minus"]

\* a - b or c;
T022 ==
    [family |-> "precedence",
     source |->
        <<"a", " ", "-", " ", "b", " ", "o", "r", " ", "c", ";">>,
     root |-> "Or",
     side |-> "left",
     child |-> "Minus"]

\* a or b * c;
T023 ==
    [family |-> "precedence",
     source |->
        <<"a", " ", "o", "r", " ", "b", " ", "*", " ", "c", ";">>,
     root |-> "Or",
     side |-> "right",
     child |-> "Star"]

\* a * b or c;
T024 ==
    [family |-> "precedence",
     source |->
        <<"a", " ", "*", " ", "b", " ", "o", "r", " ", "c", ";">>,
     root |-> "Or",
     side |-> "left",
     child |-> "Star"]

\* a or b / c;
T025 ==
    [family |-> "precedence",
     source |->
        <<"a", " ", "o", "r", " ", "b", " ", "/", " ", "c", ";">>,
     root |-> "Or",
     side |-> "right",
     child |-> "Slash"]

\* a / b or c;
T026 ==
    [family |-> "precedence",
     source |->
        <<"a", " ", "/", " ", "b", " ", "o", "r", " ", "c", ";">>,
     root |-> "Or",
     side |-> "left",
     child |-> "Slash"]

\* a and b == c;
T027 ==
    [family |-> "precedence",
     source |->
        <<"a", " ", "a", "n", "d", " ", "b", " ", "=", "=", " ", "c", ";">>,
     root |-> "And",
     side |-> "right",
     child |-> "EqualEqual"]

\* a == b and c;
T028 ==
    [family |-> "precedence",
     source |->
        <<"a", " ", "=", "=", " ", "b", " ", "a", "n", "d", " ", "c", ";">>,
     root |-> "And",
     side |-> "left",
     child |-> "EqualEqual"]

\* a and b != c;
T029 ==
    [family |-> "precedence",
     source |->
        <<"a", " ", "a", "n", "d", " ", "b", " ", "!", "=", " ", "c", ";">>,
     root |-> "And",
     side |-> "right",
     child |-> "BangEqual"]

\* a != b and c;
T030 ==
    [family |-> "precedence",
     source |->
        <<"a", " ", "!", "=", " ", "b", " ", "a", "n", "d", " ", "c", ";">>,
     root |-> "And",
     side |-> "left",
     child |-> "BangEqual"]

\* a and b < c;
T031 ==
    [family |-> "precedence",
     source |->
        <<"a", " ", "a", "n", "d", " ", "b", " ", "<", " ", "c", ";">>,
     root |-> "And",
     side |-> "right",
     child |-> "Less"]

\* a < b and c;
T032 ==
    [family |-> "precedence",
     source |->
        <<"a", " ", "<", " ", "b", " ", "a", "n", "d", " ", "c", ";">>,
     root |-> "And",
     side |-> "left",
     child |-> "Less"]

\* a and b <= c;
T033 ==
    [family |-> "precedence",
     source |->
        <<"a", " ", "a", "n", "d", " ", "b", " ", "<", "=", " ", "c", ";">>,
     root |-> "And",
     side |-> "right",
     child |-> "LessEqual"]

\* a <= b and c;
T034 ==
    [family |-> "precedence",
     source |->
        <<"a", " ", "<", "=", " ", "b", " ", "a", "n", "d", " ", "c", ";">>,
     root |-> "And",
     side |-> "left",
     child |-> "LessEqual"]

\* a and b > c;
T035 ==
    [family |-> "precedence",
     source |->
        <<"a", " ", "a", "n", "d", " ", "b", " ", ">", " ", "c", ";">>,
     root |-> "And",
     side |-> "right",
     child |-> "Greater"]

\* a > b and c;
T036 ==
    [family |-> "precedence",
     source |->
        <<"a", " ", ">", " ", "b", " ", "a", "n", "d", " ", "c", ";">>,
     root |-> "And",
     side |-> "left",
     child |-> "Greater"]

\* a and b >= c;
T037 ==
    [family |-> "precedence",
     source |->
        <<"a", " ", "a", "n", "d", " ", "b", " ", ">", "=", " ", "c", ";">>,
     root |-> "And",
     side |-> "right",
     child |-> "GreaterEqual"]

\* a >= b and c;
T038 ==
    [family |-> "precedence",
     source |->
        <<"a", " ", ">", "=", " ", "b", " ", "a", "n", "d", " ", "c", ";">>,
     root |-> "And",
     side |-> "left",
     child |-> "GreaterEqual"]

\* a and b + c;
T039 ==
    [family |-> "precedence",
     source |->
        <<"a", " ", "a", "n", "d", " ", "b", " ", "+", " ", "c", ";">>,
     root |-> "And",
     side |-> "right",
     child |-> "Plus"]

\* a + b and c;
T040 ==
    [family |-> "precedence",
     source |->
        <<"a", " ", "+", " ", "b", " ", "a", "n", "d", " ", "c", ";">>,
     root |-> "And",
     side |-> "left",
     child |-> "Plus"]

\* a and b - c;
T041 ==
    [family |-> "precedence",
     source |->
        <<"a", " ", "a", "n", "d", " ", "b", " ", "-", " ", "c", ";">>,
     root |-> "And",
     side |-> "right",
     child |-> "Minus"]

\* a - b and c;
T042 ==
    [family |-> "precedence",
     source |->
        <<"a", " ", "-", " ", "b", " ", "a", "n", "d", " ", "c", ";">>,
     root |-> "And",
     side |-> "left",
     child |-> "Minus"]

\* a and b * c;
T043 ==
    [family |-> "precedence",
     source |->
        <<"a", " ", "a", "n", "d", " ", "b", " ", "*", " ", "c", ";">>,
     root |-> "And",
     side |-> "right",
     child |-> "Star"]

\* a * b and c;
T044 ==
    [family |-> "precedence",
     source |->
        <<"a", " ", "*", " ", "b", " ", "a", "n", "d", " ", "c", ";">>,
     root |-> "And",
     side |-> "left",
     child |-> "Star"]

\* a and b / c;
T045 ==
    [family |-> "precedence",
     source |->
        <<"a", " ", "a", "n", "d", " ", "b", " ", "/", " ", "c", ";">>,
     root |-> "And",
     side |-> "right",
     child |-> "Slash"]

\* a / b and c;
T046 ==
    [family |-> "precedence",
     source |->
        <<"a", " ", "/", " ", "b", " ", "a", "n", "d", " ", "c", ";">>,
     root |-> "And",
     side |-> "left",
     child |-> "Slash"]

\* a == b < c;
T047 ==
    [family |-> "precedence",
     source |->
        <<"a", " ", "=", "=", " ", "b", " ", "<", " ", "c", ";">>,
     root |-> "EqualEqual",
     side |-> "right",
     child |-> "Less"]

\* a < b == c;
T048 ==
    [family |-> "precedence",
     source |->
        <<"a", " ", "<", " ", "b", " ", "=", "=", " ", "c", ";">>,
     root |-> "EqualEqual",
     side |-> "left",
     child |-> "Less"]

\* a == b <= c;
T049 ==
    [family |-> "precedence",
     source |->
        <<"a", " ", "=", "=", " ", "b", " ", "<", "=", " ", "c", ";">>,
     root |-> "EqualEqual",
     side |-> "right",
     child |-> "LessEqual"]

\* a <= b == c;
T050 ==
    [family |-> "precedence",
     source |->
        <<"a", " ", "<", "=", " ", "b", " ", "=", "=", " ", "c", ";">>,
     root |-> "EqualEqual",
     side |-> "left",
     child |-> "LessEqual"]

\* a == b > c;
T051 ==
    [family |-> "precedence",
     source |->
        <<"a", " ", "=", "=", " ", "b", " ", ">", " ", "c", ";">>,
     root |-> "EqualEqual",
     side |-> "right",
     child |-> "Greater"]

\* a > b == c;
T052 ==
    [family |-> "precedence",
     source |->
        <<"a", " ", ">", " ", "b", " ", "=", "=", " ", "c", ";">>,
     root |-> "EqualEqual",
     side |-> "left",
     child |-> "Greater"]

\* a == b >= c;
T053 ==
    [family |-> "precedence",
     source |->
        <<"a", " ", "=", "=", " ", "b", " ", ">", "=", " ", "c", ";">>,
     root |-> "EqualEqual",
     side |-> "right",
     child |-> "GreaterEqual"]

\* a >= b == c;
T054 ==
    [family |-> "precedence",
     source |->
        <<"a", " ", ">", "=", " ", "b", " ", "=", "=", " ", "c", ";">>,
     root |-> "EqualEqual",
     side |-> "left",
     child |-> "GreaterEqual"]

\* a != b < c;
T055 ==
    [family |-> "precedence",
     source |->
        <<"a", " ", "!", "=", " ", "b", " ", "<", " ", "c", ";">>,
     root |-> "BangEqual",
     side |-> "right",
     child |-> "Less"]

\* a < b != c;
T056 ==
    [family |-> "precedence",
     source |->
        <<"a", " ", "<", " ", "b", " ", "!", "=", " ", "c", ";">>,
     root |-> "BangEqual",
     side |-> "left",
     child |-> "Less"]

\* a != b <= c;
T057 ==
    [family |-> "precedence",
     source |->
        <<"a", " ", "!", "=", " ", "b", " ", "<", "=", " ", "c", ";">>,
     root |-> "BangEqual",
     side |-> "right",
     child |-> "LessEqual"]

\* a <= b != c;
T058 ==
    [family |-> "precedence",
     source |->
        <<"a", " ", "<", "=", " ", "b", " ", "!", "=", " ", "c", ";">>,
     root |-> "BangEqual",
     side |-> "left",
     child |-> "LessEqual"]

\* a != b > c;
T059 ==
    [family |-> "precedence",
     source |->
        <<"a", " ", "!", "=", " ", "b", " ", ">", " ", "c", ";">>,
     root |-> "BangEqual",
     side |-> "right",
     child |-> "Greater"]

\* a > b != c;
T060 ==
    [family |-> "precedence",
     source |->
        <<"a", " ", ">", " ", "b", " ", "!", "=", " ", "c", ";">>,
     root |-> "BangEqual",
     side |-> "left",
     child |-> "Greater"]

\* a != b >= c;
T061 ==
    [family |-> "precedence",
     source |->
        <<"a", " ", "!", "=", " ", "b", " ", ">", "=", " ", "c", ";">>,
     root |-> "BangEqual",
     side |-> "right",
     child |-> "GreaterEqual"]

\* a >= b != c;
T062 ==
    [family |-> "precedence",
     source |->
        <<"a", " ", ">", "=", " ", "b", " ", "!", "=", " ", "c", ";">>,
     root |-> "BangEqual",
     side |-> "left",
     child |-> "GreaterEqual"]

\* a == b + c;
T063 ==
    [family |-> "precedence",
     source |->
        <<"a", " ", "=", "=", " ", "b", " ", "+", " ", "c", ";">>,
     root |-> "EqualEqual",
     side |-> "right",
     child |-> "Plus"]

\* a + b == c;
T064 ==
    [family |-> "precedence",
     source |->
        <<"a", " ", "+", " ", "b", " ", "=", "=", " ", "c", ";">>,
     root |-> "EqualEqual",
     side |-> "left",
     child |-> "Plus"]

\* a == b - c;
T065 ==
    [family |-> "precedence",
     source |->
        <<"a", " ", "=", "=", " ", "b", " ", "-", " ", "c", ";">>,
     root |-> "EqualEqual",
     side |-> "right",
     child |-> "Minus"]

\* a - b == c;
T066 ==
    [family |-> "precedence",
     source |->
        <<"a", " ", "-", " ", "b", " ", "=", "=", " ", "c", ";">>,
     root |-> "EqualEqual",
     side |-> "left",
     child |-> "Minus"]

\* a != b + c;
T067 ==
    [family |-> "precedence",
     source |->
        <<"a", " ", "!", "=", " ", "b", " ", "+", " ", "c", ";">>,
     root |-> "BangEqual",
     side |-> "right",
     child |-> "Plus"]

\* a + b != c;
T068 ==
    [family |-> "precedence",
     source |->
        <<"a", " ", "+", " ", "b", " ", "!", "=", " ", "c", ";">>,
     root |-> "BangEqual",
     side |-> "left",
     child |-> "Plus"]

\* a != b - c;
T069 ==
    [family |-> "precedence",
     source |->
        <<"a", " ", "!", "=", " ", "b", " ", "-", " ", "c", ";">>,
     root |-> "BangEqual",
     side |-> "right",
     child |-> "Minus"]

\* a - b != c;
T070 ==
    [family |-> "precedence",
     source |->
        <<"a", " ", "-", " ", "b", " ", "!", "=", " ", "c", ";">>,
     root |-> "BangEqual",
     side |-> "left",
     child |-> "Minus"]

\* a == b * c;
T071 ==
    [family |-> "precedence",
     source |->
        <<"a", " ", "=", "=", " ", "b", " ", "*", " ", "c", ";">>,
     root |-> "EqualEqual",
     side |-> "right",
     child |-> "Star"]

\* a * b == c;
T072 ==
    [family |-> "precedence",
     source |->
        <<"a", " ", "*", " ", "b", " ", "=", "=", " ", "c", ";">>,
     root |-> "EqualEqual",
     side |-> "left",
     child |-> "Star"]

\* a == b / c;
T073 ==
    [family |-> "precedence",
     source |->
        <<"a", " ", "=", "=", " ", "b", " ", "/", " ", "c", ";">>,
     root |-> "EqualEqual",
     side |-> "right",
     child |-> "Slash"]

\* a / b == c;
T074 ==
    [family |-> "precedence",
     source |->
        <<"a", " ", "/", " ", "b", " ", "=", "=", " ", "c", ";">>,
     root |-> "EqualEqual",
     side |-> "left",
     child |-> "Slash"]

\* a != b * c;
T075 ==
    [family |-> "precedence",
     source |->
        <<"a", " ", "!", "=", " ", "b", " ", "*", " ", "c", ";">>,
     root |-> "BangEqual",
     side |-> "right",
     child |-> "Star"]

\* a * b != c;
T076 ==
    [family |-> "precedence",
     source |->
        <<"a", " ", "*", " ", "b", " ", "!", "=", " ", "c", ";">>,
     root |-> "BangEqual",
     side |-> "left",
     child |-> "Star"]

\* a != b / c;
T077 ==
    [family |-> "precedence",
     source |->
        <<"a", " ", "!", "=", " ", "b", " ", "/", " ", "c", ";">>,
     root |-> "BangEqual",
     side |-> "right",
     child |-> "Slash"]

\* a / b != c;
T078 ==
    [family |-> "precedence",
     source |->
        <<"a", " ", "/", " ", "b", " ", "!", "=", " ", "c", ";">>,
     root |-> "BangEqual",
     side |-> "left",
     child |-> "Slash"]

\* a < b + c;
T079 ==
    [family |-> "precedence",
     source |->
        <<"a", " ", "<", " ", "b", " ", "+", " ", "c", ";">>,
     root |-> "Less",
     side |-> "right",
     child |-> "Plus"]

\* a + b < c;
T080 ==
    [family |-> "precedence",
     source |->
        <<"a", " ", "+", " ", "b", " ", "<", " ", "c", ";">>,
     root |-> "Less",
     side |-> "left",
     child |-> "Plus"]

\* a < b - c;
T081 ==
    [family |-> "precedence",
     source |->
        <<"a", " ", "<", " ", "b", " ", "-", " ", "c", ";">>,
     root |-> "Less",
     side |-> "right",
     child |-> "Minus"]

\* a - b < c;
T082 ==
    [family |-> "precedence",
     source |->
        <<"a", " ", "-", " ", "b", " ", "<", " ", "c", ";">>,
     root |-> "Less",
     side |-> "left",
     child |-> "Minus"]

\* a <= b + c;
T083 ==
    [family |-> "precedence",
     source |->
        <<"a", " ", "<", "=", " ", "b", " ", "+", " ", "c", ";">>,
     root |-> "LessEqual",
     side |-> "right",
     child |-> "Plus"]

\* a + b <= c;
T084 ==
    [family |-> "precedence",
     source |->
        <<"a", " ", "+", " ", "b", " ", "<", "=", " ", "c", ";">>,
     root |-> "LessEqual",
     side |-> "left",
     child |-> "Plus"]

\* a <= b - c;
T085 ==
    [family |-> "precedence",
     source |->
        <<"a", " ", "<", "=", " ", "b", " ", "-", " ", "c", ";">>,
     root |-> "LessEqual",
     side |-> "right",
     child |-> "Minus"]

\* a - b <= c;
T086 ==
    [family |-> "precedence",
     source |->
        <<"a", " ", "-", " ", "b", " ", "<", "=", " ", "c", ";">>,
     root |-> "LessEqual",
     side |-> "left",
     child |-> "Minus"]

\* a > b + c;
T087 ==
    [family |-> "precedence",
     source |->
        <<"a", " ", ">", " ", "b", " ", "+", " ", "c", ";">>,
     root |-> "Greater",
     side |-> "right",
     child |-> "Plus"]

\* a + b > c;
T088 ==
    [family |-> "precedence",
     source |->
        <<"a", " ", "+", " ", "b", " ", ">", " ", "c", ";">>,
     root |-> "Greater",
     side |-> "left",
     child |-> "Plus"]

\* a > b - c;
T089 ==
    [family |-> "precedence",
     source |->
        <<"a", " ", ">", " ", "b", " ", "-", " ", "c", ";">>,
     root |-> "Greater",
     side |-> "right",
     child |-> "Minus"]

\* a - b > c;
T090 ==
    [family |-> "precedence",
     source |->
        <<"a", " ", "-", " ", "b", " ", ">", " ", "c", ";">>,
     root |-> "Greater",
     side |-> "left",
     child |-> "Minus"]

\* a >= b + c;
T091 ==
    [family |-> "precedence",
     source |->
        <<"a", " ", ">", "=", " ", "b", " ", "+", " ", "c", ";">>,
     root |-> "GreaterEqual",
     side |-> "right",
     child |-> "Plus"]

\* a + b >= c;
T092 ==
    [family |-> "precedence",
     source |->
        <<"a", " ", "+", " ", "b", " ", ">", "=", " ", "c", ";">>,
     root |-> "GreaterEqual",
     side |-> "left",
     child |-> "Plus"]

\* a >= b - c;
T093 ==
    [family |-> "precedence",
     source |->
        <<"a", " ", ">", "=", " ", "b", " ", "-", " ", "c", ";">>,
     root |-> "GreaterEqual",
     side |-> "right",
     child |-> "Minus"]

\* a - b >= c;
T094 ==
    [family |-> "precedence",
     source |->
        <<"a", " ", "-", " ", "b", " ", ">", "=", " ", "c", ";">>,
     root |-> "GreaterEqual",
     side |-> "left",
     child |-> "Minus"]

\* a < b * c;
T095 ==
    [family |-> "precedence",
     source |->
        <<"a", " ", "<", " ", "b", " ", "*", " ", "c", ";">>,
     root |-> "Less",
     side |-> "right",
     child |-> "Star"]

\* a * b < c;
T096 ==
    [family |-> "precedence",
     source |->
        <<"a", " ", "*", " ", "b", " ", "<", " ", "c", ";">>,
     root |-> "Less",
     side |-> "left",
     child |-> "Star"]

\* a < b / c;
T097 ==
    [family |-> "precedence",
     source |->
        <<"a", " ", "<", " ", "b", " ", "/", " ", "c", ";">>,
     root |-> "Less",
     side |-> "right",
     child |-> "Slash"]

\* a / b < c;
T098 ==
    [family |-> "precedence",
     source |->
        <<"a", " ", "/", " ", "b", " ", "<", " ", "c", ";">>,
     root |-> "Less",
     side |-> "left",
     child |-> "Slash"]

\* a <= b * c;
T099 ==
    [family |-> "precedence",
     source |->
        <<"a", " ", "<", "=", " ", "b", " ", "*", " ", "c", ";">>,
     root |-> "LessEqual",
     side |-> "right",
     child |-> "Star"]

\* a * b <= c;
T100 ==
    [family |-> "precedence",
     source |->
        <<"a", " ", "*", " ", "b", " ", "<", "=", " ", "c", ";">>,
     root |-> "LessEqual",
     side |-> "left",
     child |-> "Star"]

\* a <= b / c;
T101 ==
    [family |-> "precedence",
     source |->
        <<"a", " ", "<", "=", " ", "b", " ", "/", " ", "c", ";">>,
     root |-> "LessEqual",
     side |-> "right",
     child |-> "Slash"]

\* a / b <= c;
T102 ==
    [family |-> "precedence",
     source |->
        <<"a", " ", "/", " ", "b", " ", "<", "=", " ", "c", ";">>,
     root |-> "LessEqual",
     side |-> "left",
     child |-> "Slash"]

\* a > b * c;
T103 ==
    [family |-> "precedence",
     source |->
        <<"a", " ", ">", " ", "b", " ", "*", " ", "c", ";">>,
     root |-> "Greater",
     side |-> "right",
     child |-> "Star"]

\* a * b > c;
T104 ==
    [family |-> "precedence",
     source |->
        <<"a", " ", "*", " ", "b", " ", ">", " ", "c", ";">>,
     root |-> "Greater",
     side |-> "left",
     child |-> "Star"]

\* a > b / c;
T105 ==
    [family |-> "precedence",
     source |->
        <<"a", " ", ">", " ", "b", " ", "/", " ", "c", ";">>,
     root |-> "Greater",
     side |-> "right",
     child |-> "Slash"]

\* a / b > c;
T106 ==
    [family |-> "precedence",
     source |->
        <<"a", " ", "/", " ", "b", " ", ">", " ", "c", ";">>,
     root |-> "Greater",
     side |-> "left",
     child |-> "Slash"]

\* a >= b * c;
T107 ==
    [family |-> "precedence",
     source |->
        <<"a", " ", ">", "=", " ", "b", " ", "*", " ", "c", ";">>,
     root |-> "GreaterEqual",
     side |-> "right",
     child |-> "Star"]

\* a * b >= c;
T108 ==
    [family |-> "precedence",
     source |->
        <<"a", " ", "*", " ", "b", " ", ">", "=", " ", "c", ";">>,
     root |-> "GreaterEqual",
     side |-> "left",
     child |-> "Star"]

\* a >= b / c;
T109 ==
    [family |-> "precedence",
     source |->
        <<"a", " ", ">", "=", " ", "b", " ", "/", " ", "c", ";">>,
     root |-> "GreaterEqual",
     side |-> "right",
     child |-> "Slash"]

\* a / b >= c;
T110 ==
    [family |-> "precedence",
     source |->
        <<"a", " ", "/", " ", "b", " ", ">", "=", " ", "c", ";">>,
     root |-> "GreaterEqual",
     side |-> "left",
     child |-> "Slash"]

\* a + b * c;
T111 ==
    [family |-> "precedence",
     source |->
        <<"a", " ", "+", " ", "b", " ", "*", " ", "c", ";">>,
     root |-> "Plus",
     side |-> "right",
     child |-> "Star"]

\* a * b + c;
T112 ==
    [family |-> "precedence",
     source |->
        <<"a", " ", "*", " ", "b", " ", "+", " ", "c", ";">>,
     root |-> "Plus",
     side |-> "left",
     child |-> "Star"]

\* a + b / c;
T113 ==
    [family |-> "precedence",
     source |->
        <<"a", " ", "+", " ", "b", " ", "/", " ", "c", ";">>,
     root |-> "Plus",
     side |-> "right",
     child |-> "Slash"]

\* a / b + c;
T114 ==
    [family |-> "precedence",
     source |->
        <<"a", " ", "/", " ", "b", " ", "+", " ", "c", ";">>,
     root |-> "Plus",
     side |-> "left",
     child |-> "Slash"]

\* a - b * c;
T115 ==
    [family |-> "precedence",
     source |->
        <<"a", " ", "-", " ", "b", " ", "*", " ", "c", ";">>,
     root |-> "Minus",
     side |-> "right",
     child |-> "Star"]

\* a * b - c;
T116 ==
    [family |-> "precedence",
     source |->
        <<"a", " ", "*", " ", "b", " ", "-", " ", "c", ";">>,
     root |-> "Minus",
     side |-> "left",
     child |-> "Star"]

\* a - b / c;
T117 ==
    [family |-> "precedence",
     source |->
        <<"a", " ", "-", " ", "b", " ", "/", " ", "c", ";">>,
     root |-> "Minus",
     side |-> "right",
     child |-> "Slash"]

\* a / b - c;
T118 ==
    [family |-> "precedence",
     source |->
        <<"a", " ", "/", " ", "b", " ", "-", " ", "c", ";">>,
     root |-> "Minus",
     side |-> "left",
     child |-> "Slash"]

\* -a or b;
T119 ==
    [family |-> "precedence",
     source |->
        <<"-", "a", " ", "o", "r", " ", "b", ";">>,
     root |-> "Or",
     side |-> "left",
     child |-> "Minus"]

\* -a and b;
T120 ==
    [family |-> "precedence",
     source |->
        <<"-", "a", " ", "a", "n", "d", " ", "b", ";">>,
     root |-> "And",
     side |-> "left",
     child |-> "Minus"]

\* -a == b;
T121 ==
    [family |-> "precedence",
     source |->
        <<"-", "a", " ", "=", "=", " ", "b", ";">>,
     root |-> "EqualEqual",
     side |-> "left",
     child |-> "Minus"]

\* -a < b;
T122 ==
    [family |-> "precedence",
     source |->
        <<"-", "a", " ", "<", " ", "b", ";">>,
     root |-> "Less",
     side |-> "left",
     child |-> "Minus"]

\* -a + b;
T123 ==
    [family |-> "precedence",
     source |->
        <<"-", "a", " ", "+", " ", "b", ";">>,
     root |-> "Plus",
     side |-> "left",
     child |-> "Minus"]

\* -a * b;
T124 ==
    [family |-> "precedence",
     source |->
        <<"-", "a", " ", "*", " ", "b", ";">>,
     root |-> "Star",
     side |-> "left",
     child |-> "Minus"]

\* !a or b;
T125 ==
    [family |-> "precedence",
     source |->
        <<"!", "a", " ", "o", "r", " ", "b", ";">>,
     root |-> "Or",
     side |-> "left",
     child |-> "Bang"]

\* !a and b;
T126 ==
    [family |-> "precedence",
     source |->
        <<"!", "a", " ", "a", "n", "d", " ", "b", ";">>,
     root |-> "And",
     side |-> "left",
     child |-> "Bang"]

\* !a == b;
T127 ==
    [family |-> "precedence",
     source |->
        <<"!", "a", " ", "=", "=", " ", "b", ";">>,
     root |-> "EqualEqual",
     side |-> "left",
     child |-> "Bang"]

\* !a < b;
T128 ==
    [family |-> "precedence",
     source |->
        <<"!", "a", " ", "<", " ", "b", ";">>,
     root |-> "Less",
     side |-> "left",
     child |-> "Bang"]

\* !a + b;
T129 ==
    [family |-> "precedence",
     source |->
        <<"!", "a", " ", "+", " ", "b", ";">>,
     root |-> "Plus",
     side |-> "left",
     child |-> "Bang"]

\* !a * b;
T130 ==
    [family |-> "precedence",
     source |->
        <<"!", "a", " ", "*", " ", "b", ";">>,
     root |-> "Star",
     side |-> "left",
     child |-> "Bang"]

\* x = a or b;
T131 ==
    [family |-> "precedence",
     source |->
        <<"x", " ", "=", " ", "a", " ", "o", "r", " ", "b", ";">>,
     root |-> "Equal",
     side |-> "right",
     child |-> "Or"]

\* x = a and b;
T132 ==
    [family |-> "precedence",
     source |->
        <<"x", " ", "=", " ", "a", " ", "a", "n", "d", " ", "b", ";">>,
     root |-> "Equal",
     side |-> "right",
     child |-> "And"]

\* x = a == b;
T133 ==
    [family |-> "precedence",
     source |->
        <<"x", " ", "=", " ", "a", " ", "=", "=", " ", "b", ";">>,
     root |-> "Equal",
     side |-> "right",
     child |-> "EqualEqual"]

\* x = a < b;
T134 ==
    [family |-> "precedence",
     source |->
        <<"x", " ", "=", " ", "a", " ", "<", " ", "b", ";">>,
     root |-> "Equal",
     side |-> "right",
     child |-> "Less"]

\* x = a + b;
T135 ==
    [family |-> "precedence",
     source |->
        <<"x", " ", "=", " ", "a", " ", "+", " ", "b", ";">>,
     root |-> "Equal",
     side |-> "right",
     child |-> "Plus"]

\* x = a * b;
T136 ==
    [family |-> "precedence",
     source |->
        <<"x", " ", "=", " ", "a", " ", "*", " ", "b", ";">>,
     root |-> "Equal",
     side |-> "right",
     child |-> "Star"]

\* x = -a;
T137 ==
    [family |-> "precedence",
     source |->
        <<"x", " ", "=", " ", "-", "a", ";">>,
     root |-> "Equal",
     side |-> "right",
     child |-> "Minus"]

\* print 1 + 2 * 3;
T138 ==
    [family |-> "precedence_value",
     source |->
        <<"p", "r", "i", "n", "t", " ", "1", " ", "+", " ", "2", " ", "*", " ", "3",
        ";">>,
     want_out |-> <<<<"7">>>>]

\* print 2 * 3 + 1;
T139 ==
    [family |-> "precedence_value",
     source |->
        <<"p", "r", "i", "n", "t", " ", "2", " ", "*", " ", "3", " ", "+", " ", "1",
        ";">>,
     want_out |-> <<<<"7">>>>]

\* print 8 - 6 / 2;
T140 ==
    [family |-> "precedence_value",
     source |->
        <<"p", "r", "i", "n", "t", " ", "8", " ", "-", " ", "6", " ", "/", " ", "2",
        ";">>,
     want_out |-> <<<<"5">>>>]

\* print 1 + 2 < 4;
T141 ==
    [family |-> "precedence_value",
     source |->
        <<"p", "r", "i", "n", "t", " ", "1", " ", "+", " ", "2", " ", "<", " ", "4",
        ";">>,
     want_out |-> <<<<"t", "r", "u", "e">>>>]

\* print 3 == 1 + 2;
T142 ==
    [family |-> "precedence_value",
     source |->
        <<"p", "r", "i", "n", "t", " ", "3", " ", "=", "=", " ", "1", " ", "+", " ",
        "2", ";">>,
     want_out |-> <<<<"t", "r", "u", "e">>>>]

\* print 2 == 1 + 1;
T143 ==
    [family |-> "precedence_value",
     source |->
        <<"p", "r", "i", "n", "t", " ", "2", " ", "=", "=", " ", "1", " ", "+", " ",
        "1", ";">>,
     want_out |-> <<<<"t", "r", "u", "e">>>>]

\* print nil or 1 == 1;
T144 ==
    [family |-> "precedence_value",
     source |->
        <<"p", "r", "i", "n", "t", " ", "n", "i", "l", " ", "o", "r", " ", "1", " ",
        "=", "=", " ", "1", ";">>,
     want_out |-> <<<<"t", "r", "u", "e">>>>]

\* print 1 == 2 and q;
T145 ==
    [family |-> "precedence_value",
     source |->
        <<"p", "r", "i", "n", "t", " ", "1", " ", "=", "=", " ", "2", " ", "a", "n",
        "d", " ", "q", ";">>,
     want_out |-> <<<<"f", "a", "l", "s", "e">>>>]

\* print 1 or nil and q;
T146 ==
    [family |-> "precedence_value",
     source |->
        <<"p", "r", "i", "n", "t", " ", "1", " ", "o", "r", " ", "n", "i", "l", " ",
        "a", "n", "d", " ", "q", ";">>,
     want_out |-> <<<<"1">>>>]

\* var x; x = nil or 2; print x;
T147 ==
    [family |-> "precedence_value",
     source |->
        <<"v", "a", "r", " ", "x", ";", " ", "x", " ", "=", " ", "n", "i", "l", " ",
        "o", "r", " ", "2", ";", " ", "p", "r", "i", "n", "t", " ", "x", ";">>,
     want_out |-> <<<<"2">>>>]

\* var x; x = 1 + 2 * 3; print x;
T148 ==
    [family |-> "precedence_value",
     source |->
        <<"v", "a", "r", " ", "x", ";", " ", "x", " ", "=", " ", "1", " ", "+", " ",
        "2", " ", "*", " ", "3", ";", " ", "p", "r", "i", "n", "t", " ", "x", ";">>,
     want_out |-> <<<<"7">>>>]

\* a or b or c;
T149 ==
    [family |-> "associativity",
     source |->
        <<"a", " ", "o", "r", " ", "b", " ", "o", "r", " ", "c", ";">>,
     root |-> "Or",
     child |-> "Or",
     inner |-> "None"]

\* a and b and c;
T150 ==
    [family |-> "associativity",
     source |->
        <<"a", " ", "a", "n", "d", " ", "b", " ", "a", "n", "d", " ", "c", ";">>,
     root |-> "And",
     child |-> "And",
     inner |-> "None"]

\* a == b == c;
T151 ==
    [family |-> "associativity",
     source |->
        <<"a", " ", "=", "=", " ", "b", " ", "=", "=", " ", "c", ";">>,
     root |-> "EqualEqual",
     child |-> "EqualEqual",
     inner |-> "None"]

\* a == b != c;
T152 ==
    [family |-> "associativity",
     source |->
        <<"a", " ", "=", "=", " ", "b", " ", "!", "=", " ", "c", ";">>,
     root |-> "BangEqual",
     child |-> "EqualEqual",
     inner |-> "None"]

\* a != b == c;
T153 ==
    [family |-> "associativity",
     source |->
        <<"a", " ", "!", "=", " ", "b", " ", "=", "=", " ", "c", ";">>,
     root |-> "EqualEqual",
     child |-> "BangEqual",
     inner |-> "None"]

\* a != b != c;
T154 ==
    [family |-> "associativity",
     source |->
        <<"a", " ", "!", "=", " ", "b", " ", "!", "=", " ", "c", ";">>,
     root |-> "BangEqual",
     child |-> "BangEqual",
     inner |-> "None"]

\* a < b < c;
T155 ==
    [family |-> "associativity",
     source |->
        <<"a", " ", "<", " ", "b", " ", "<", " ", "c", ";">>,
     root |-> "Less",
     child |-> "Less",
     inner |-> "None"]

\* a < b <= c;
T156 ==
    [family |-> "associativity",
     source |->
        <<"a", " ", "<", " ", "b", " ", "<", "=", " ", "c", ";">>,
     root |-> "LessEqual",
     child |-> "Less",
     inner |-> "None"]

\* a < b > c;
T157 ==
    [family |-> "associativity",
     source |->
        <<"a", " ", "<", " ", "b", " ", ">", " ", "c", ";">>,
     root |-> "Greater",
     child |-> "Less",
     inner |-> "None"]

\* a < b >= c;
T158 ==
    [family |-> "associativity",
     source |->
        <<"a", " ", "<", " ", "b", " ", ">", "=", " ", "c", ";">>,
     root |-> "GreaterEqual",
     child |-> "Less",
     inner |-> "None"]

\* a <= b < c;
T159 ==
    [family |-> "associativity",
     source |->
        <<"a", " ", "<", "=", " ", "b", " ", "<", " ", "c", ";">>,
     root |-> "Less",
     child |-> "LessEqual",
     inner |-> "None"]

\* a <= b <= c;
T160 ==
    [family |-> "associativity",
     source |->
        <<"a", " ", "<", "=", " ", "b", " ", "<", "=", " ", "c", ";">>,
     root |-> "LessEqual",
     child |-> "LessEqual",
     inner |-> "None"]

\* a <= b > c;
T161 ==
    [family |-> "associativity",
     source |->
        <<"a", " ", "<", "=", " ", "b", " ", ">", " ", "c", ";">>,
     root |-> "Greater",
     child |-> "LessEqual",
     inner |-> "None"]

\* a <= b >= c;
T162 ==
    [family |-> "associativity",
     source |->
        <<"a", " ", "<", "=", " ", "b", " ", ">", "=", " ", "c", ";">>,
     root |-> "GreaterEqual",
     child |-> "LessEqual",
     inner |-> "None"]

\* a > b < c;
T163 ==
    [family |-> "associativity",
     source |->
        <<"a", " ", ">", " ", "b", " ", "<", " ", "c", ";">>,
     root |-> "Less",
     child |-> "Greater",
     inner |-> "None"]

\* a > b <= c;
T164 ==
    [family |-> "associativity",
     source |->
        <<"a", " ", ">", " ", "b", " ", "<", "=", " ", "c", ";">>,
     root |-> "LessEqual",
     child |-> "Greater",
     inner |-> "None"]

\* a > b > c;
T165 ==
    [family |-> "associativity",
     source |->
        <<"a", " ", ">", " ", "b", " ", ">", " ", "c", ";">>,
     root |-> "Greater",
     child |-> "Greater",
     inner |-> "None"]

\* a > b >= c;
T166 ==
    [family |-> "associativity",
     source |->
        <<"a", " ", ">", " ", "b", " ", ">", "=", " ", "c", ";">>,
     root |-> "GreaterEqual",
     child |-> "Greater",
     inner |-> "None"]

\* a >= b < c;
T167 ==
    [family |-> "associativity",
     source |->
        <<"a", " ", ">", "=", " ", "b", " ", "<", " ", "c", ";">>,
     root |-> "Less",
     child |-> "GreaterEqual",
     inner |-> "None"]

\* a >= b <= c;
T168 ==
    [family |-> "associativity",
     source |->
        <<"a", " ", ">", "=", " ", "b", " ", "<", "=", " ", "c", ";">>,
     root |-> "LessEqual",
     child |-> "GreaterEqual",
     inner |-> "None"]

\* a >= b > c;
T169 ==
    [family |-> "associativity",
     source |->
        <<"a", " ", ">", "=", " ", "b", " ", ">", " ", "c", ";">>,
     root |-> "Greater",
     child |-> "GreaterEqual",
     inner |-> "None"]

\* a >= b >= c;
T170 ==
    [family |-> "associativity",
     source |->
        <<"a", " ", ">", "=", " ", "b", " ", ">", "=", " ", "c", ";">>,
     root |-> "GreaterEqual",
     child |-> "GreaterEqual",
     inner |-> "None"]

\* a + b + c;
T171 ==
    [family |-> "associativity",
     source |->
        <<"a", " ", "+", " ", "b", " ", "+", " ", "c", ";">>,
     root |-> "Plus",
     child |-> "Plus",
     inner |-> "None"]

\* a + b - c;
T172 ==
    [family |-> "associativity",
     source |->
        <<"a", " ", "+", " ", "b", " ", "-", " ", "c", ";">>,
     root |-> "Minus",
     child |-> "Plus",
     inner |-> "None"]

\* a - b + c;
T173 ==
    [family |-> "associativity",
     source |->
        <<"a", " ", "-", " ", "b", " ", "+", " ", "c", ";">>,
     root |-> "Plus",
     child |-> "Minus",
     inner |-> "None"]

\* a - b - c;
T174 ==
    [family |-> "associativity",
     source |->
        <<"a", " ", "-", " ", "b", " ", "-", " ", "c", ";">>,
     root |-> "Minus",
     child |-> "Minus",
     inner |-> "None"]

\* a * b * c;
T175 ==
    [family |-> "associativity",
     source |->
        <<"a", " ", "*", " ", "b", " ", "*", " ", "c", ";">>,
     root |-> "Star",
     child |-> "Star",
     inner |-> "None"]

\* a * b / c;
T176 ==
    [family |-> "associativity",
     source |->
        <<"a", " ", "*", " ", "b", " ", "/", " ", "c", ";">>,
     root |-> "Slash",
     child |-> "Star",
     inner |-> "None"]

\* a / b * c;
T177 ==
    [family |-> "associativity",
     source |->
        <<"a", " ", "/", " ", "b", " ", "*", " ", "c", ";">>,
     root |-> "Star",
     child |-> "Slash",
     inner |-> "None"]

\* a / b / c;
T178 ==
    [family |-> "associativity",
     source |->
        <<"a", " ", "/", " ", "b", " ", "/", " ", "c", ";">>,
     root |-> "Slash",
     child |-> "Slash",
     inner |-> "None"]

\* a == b != c == d;
T179 ==
    [family |-> "associativity",
     source |->
        <<"a", " ", "=", "=", " ", "b", " ", "!", "=", " ", "c", " ", "=", "=", " ",
        "d", ";">>,
     root |-> "EqualEqual",
     child |-> "BangEqual",
     inner |-> "EqualEqual"]

\* a != b != c == d;
T180 ==
    [family |-> "associativity",
     source |->
        <<"a", " ", "!", "=", " ", "b", " ", "!", "=", " ", "c", " ", "=", "=", " ",
        "d", ";">>,
     root |-> "EqualEqual",
     child |-> "BangEqual",
     inner |-> "BangEqual"]

\* a < b <= c < d;
T181 ==
    [family |-> "associativity",
     source |->
        <<"a", " ", "<", " ", "b", " ", "<", "=", " ", "c", " ", "<", " ", "d", ";">>,
     root |-> "Less",
     child |-> "LessEqual",
     inner |-> "Less"]

\* a <= b <= c < d;
T182 ==
    [family |-> "associativity",
     source |->
        <<"a", " ", "<", "=", " ", "b", " ", "<", "=", " ", "c", " ", "<", " ", "d",
        ";">>,
     root |-> "Less",
     child |-> "LessEqual",
     inner |-> "LessEqual"]

\* a + b - c + d;
T183 ==
    [family |-> "associativity",
     source |->
        <<"a", " ", "+", " ", "b", " ", "-", " ", "c", " ", "+", " ", "d", ";">>,
     root |-> "Plus",
     child |-> "Minus",
     inner |-> "Plus"]

\* a - b - c + d;
T184 ==
    [family |-> "associativity",
     source |->
        <<"a", " ", "-", " ", "b", " ", "-", " ", "c", " ", "+", " ", "d", ";">>,
     root |-> "Plus",
     child |-> "Minus",
     inner |-> "Minus"]

\* a * b / c * d;
T185 ==
    [family |-> "associativity",
     source |->
        <<"a", " ", "*", " ", "b", " ", "/", " ", "c", " ", "*", " ", "d", ";">>,
     root |-> "Star",
     child |-> "Slash",
     inner |-> "Star"]

\* a / b / c * d;
T186 ==
    [family |-> "associativity",
     source |->
        <<"a", " ", "/", " ", "b", " ", "/", " ", "c", " ", "*", " ", "d", ";">>,
     root |-> "Star",
     child |-> "Slash",
     inner |-> "Slash"]

\* print 1 - 2 - 3;
T187 ==
    [family |-> "associativity_value",
     source |->
        <<"p", "r", "i", "n", "t", " ", "1", " ", "-", " ", "2", " ", "-", " ", "3",
        ";">>,
     want_out |-> <<<<"-", "4">>>>,
     want_kind |-> "Ok"]

\* print 8 / 4 / 2;
T188 ==
    [family |-> "associativity_value",
     source |->
        <<"p", "r", "i", "n", "t", " ", "8", " ", "/", " ", "4", " ", "/", " ", "2",
        ";">>,
     want_out |-> <<<<"1">>>>,
     want_kind |-> "Ok"]

\* print 2 - 3 + 4;
T189 ==
    [family |-> "associativity_value",
     source |->
        <<"p", "r", "i", "n", "t", " ", "2", " ", "-", " ", "3", " ", "+", " ", "4",
        ";">>,
     want_out |-> <<<<"3">>>>,
     want_kind |-> "Ok"]

\* print 12 / 6 * 2;
T190 ==
    [family |-> "associativity_value",
     source |->
        <<"p", "r", "i", "n", "t", " ", "1", "2", " ", "/", " ", "6", " ", "*", " ",
        "2", ";">>,
     want_out |-> <<<<"4">>>>,
     want_kind |-> "Ok"]

\* print 1 - 2 - 3 - 4;
T191 ==
    [family |-> "associativity_value",
     source |->
        <<"p", "r", "i", "n", "t", " ", "1", " ", "-", " ", "2", " ", "-", " ", "3",
        " ", "-", " ", "4", ";">>,
     want_out |-> <<<<"-", "8">>>>,
     want_kind |-> "Ok"]

\* print 7 - 2 - 1 < 5 - 1;
T192 ==
    [family |-> "associativity_value",
     source |->
        <<"p", "r", "i", "n", "t", " ", "7", " ", "-", " ", "2", " ", "-", " ", "1",
        " ", "<", " ", "5", " ", "-", " ", "1", ";">>,
     want_out |-> <<<<"f", "a", "l", "s", "e">>>>,
     want_kind |-> "Ok"]

\* print 9 - 4 - 3 == 2;
T193 ==
    [family |-> "associativity_value",
     source |->
        <<"p", "r", "i", "n", "t", " ", "9", " ", "-", " ", "4", " ", "-", " ", "3",
        " ", "=", "=", " ", "2", ";">>,
     want_out |-> <<<<"t", "r", "u", "e">>>>,
     want_kind |-> "Ok"]

\* print nil or nil or 3;
T194 ==
    [family |-> "associativity_value",
     source |->
        <<"p", "r", "i", "n", "t", " ", "n", "i", "l", " ", "o", "r", " ", "n", "i",
        "l", " ", "o", "r", " ", "3", ";">>,
     want_out |-> <<<<"3">>>>,
     want_kind |-> "Ok"]

\* print 1 and 2 and 3;
T195 ==
    [family |-> "associativity_value",
     source |->
        <<"p", "r", "i", "n", "t", " ", "1", " ", "a", "n", "d", " ", "2", " ", "a",
        "n", "d", " ", "3", ";">>,
     want_out |-> <<<<"3">>>>,
     want_kind |-> "Ok"]

\* fun f() { print 1; } fun g() { print 2; } f() + g();
T196 ==
    [family |-> "associativity_value",
     source |->
        <<"f", "u", "n", " ", "f", "(", ")", " ", "{", " ", "p", "r", "i", "n", "t",
        " ", "1", ";", " ", "}", " ", "f", "u", "n", " ", "g", "(", ")", " ", "{", " ",
        "p", "r", "i", "n", "t", " ", "2", ";", " ", "}", " ", "f", "(", ")", " ", "+",
        " ", "g", "(", ")", ";">>,
     want_out |-> <<<<"1">>, <<"2">>>>,
     want_kind |-> "Panic"]

\* fun f() { print 1; } fun g() { print 2; } f() - g();
T197 ==
    [family |-> "associativity_value",
     source |->
        <<"f", "u", "n", " ", "f", "(", ")", " ", "{", " ", "p", "r", "i", "n", "t",
        " ", "1", ";", " ", "}", " ", "f", "u", "n", " ", "g", "(", ")", " ", "{", " ",
        "p", "r", "i", "n", "t", " ", "2", ";", " ", "}", " ", "f", "(", ")", " ", "-",
        " ", "g", "(", ")", ";">>,
     want_out |-> <<<<"1">>>>,
     want_kind |-> "Err"]

\* print q - w;
T198 ==
    [family |-> "operand_undefined",
     source |->
        <<"p", "r", "i", "n", "t", " ", "q", " ", "-", " ", "w", ";">>,
     name |-> <<"q">>]

\* print q + w;
T199 ==
    [family |-> "operand_undefined",
     source |->
        <<"p", "r", "i", "n", "t", " ", "q", " ", "+", " ", "w", ";">>,
     name |-> <<"q">>]

\* print 1 - q - w;
T200 ==
    [family |-> "operand_undefined",
     source |->
        <<"p", "r", "i", "n", "t", " ", "1", " ", "-", " ", "q", " ", "-", " ", "w",
        ";">>,
     name |-> <<"q">>]

\* print q * w / 2;
T201 ==
    [family |-> "operand_undefined",
     source |->
        <<"p", "r", "i", "n", "t", " ", "q", " ", "*", " ", "w", " ", "/", " ", "2",
        ";">>,
     name |-> <<"q">>]

\* print 2 < w < q;
T202 ==
    [family |-> "operand_undefined",
     source |->
        <<"p", "r", "i", "n", "t", " ", "2", " ", "<", " ", "w", " ", "<", " ", "q",
        ";">>,
     name |-> <<"w">>]

\* print q == w;
T203 ==
    [family |-> "operand_undefined",
     source |->
        <<"p", "r", "i", "n", "t", " ", "q", " ", "=", "=", " ", "w", ";">>,
     name |-> <<"q">>]

\* x = 1;
T204 ==
    [family |-> "assign_valid",
     source |->
        <<"x", " ", "=", " ", "1", ";">>,
     name_span |-> Span_new(0, 1),
     value_expr |-> "Literal",
     errors |-> 0]

\* a = b = c;
T205 ==
    [family |-> "assign_valid",
     source |->
        <<"a", " ", "=", " ", "b", " ", "=", " ", "c", ";">>,
     name_span |-> Span_new(0, 1),
     value_expr |-> "Assignment",
     errors |-> 0]

\* a = b = c = d;
T206 ==
    [family |-> "assign_valid",
     source |->
        <<"a", " ", "=", " ", "b", " ", "=", " ", "c", " ", "=", " ", "d", ";">>,
     name_span |-> Span_new(0, 1),
     value_expr |-> "Assignment",
     errors |-> 0]

\* a = b + c;
T207 ==
    [family |-> "assign_valid",
     source |->
        <<"a", " ", "=", " ", "b", " ", "+", " ", "c", ";">>,
     name_span |-> Span_new(0, 1),
     value_expr |-> "Binary",
     errors |-> 0]

\* a = 1 = 2;
T208 ==
    [family |-> "assign_valid",
     source |->
        <<"a", " ", "=", " ", "1", " ", "=", " ", "2", ";">>,
     name_span |-> Span_new(0, 1),
     value_expr |-> "Literal",
     errors |-> 1]

\* 1 = 1;
T209 ==
    [family |-> "assign_invalid",
     source |->
        <<"1", " ", "=", " ", "1", ";">>,
     lhs_expr |-> "Literal",
     target_span |-> Span_new(0, 1)]

\* "s" = 1;
T210 ==
    [family |-> "assign_invalid",
     source |->
        <<"\"", "s", "\"", " ", "=", " ", "1", ";">>,
     lhs_expr |-> "Literal",
     target_span |-> Span_new(0, 3)]

\* true = 1;
T211 ==
    [family |-> "assign_invalid",
     source |->
        <<"t", "r", "u", "e", " ", "=", " ", "1", ";">>,
     lhs_expr |-> "Literal",
     target_span |-> Span_new(0, 4)]

\* nil = 1;
T212 ==
    [family |-> "assign_invalid",
     source |->
        <<"n", "i", "l", " ", "=", " ", "1", ";">>,
     lhs_expr |-> "Literal",
     target_span |-> Span_new(0, 3)]

\* a + b = 1;
T213 ==
    [family |-> "assign_invalid",
     source |->
        <<"a", " ", "+", " ", "b", " ", "=", " ", "1", ";">>,
     lhs_expr |-> "Binary",
     target_span |-> Span_new(0, 5)]

\* a * 2 < b = 1;
T214 ==
    [family |-> "assign_invalid",
     source |->
        <<"a", " ", "*", " ", "2", " ", "<", " ", "b", " ", "=", " ", "1", ";">>,
     lhs_expr |-> "Binary",
     target_span |-> Span_new(0, 9)]

\* f() = 1;
T215 ==
    [family |-> "assign_invalid",
     source |->
        <<"f", "(", ")", " ", "=", " ", "1", ";">>,
     lhs_expr |-> "Call",
     target_span |-> Span_new(0, 3)]

\* f(a, 1) = 1;
T216 ==
    [family |-> "assign_invalid",
     source |->
        <<"f", "(", "a", ",", " ", "1", ")", " ", "=", " ", "1", ";">>,
     lhs_expr |-> "Call",
     target_span |-> Span_new(0, 7)]

\* (a) = 1;
T217 ==
    [family |-> "assign_invalid",
     source |->
        <<"(", "a", ")", " ", "=", " ", "1", ";">>,
     lhs_expr |-> "Grouping",
     target_span |-> Span_new(0, 3)]

\* -a = 1;
T218 ==
    [family |-> "assign_invalid",
     source |->
        <<"-", "a", " ", "=", " ", "1", ";">>,
     lhs_expr |-> "Unary",
     target_span |-> Span_new(0, 2)]

\* !a = 1;
T219 ==
    [family |-> "assign_invalid",
     source |->
        <<"!", "a", " ", "=", " ", "1", ";">>,
     lhs_expr |-> "Unary",
     target_span |-> Span_new(0, 2)]

\* a or b = 1;
T220 ==
    [family |-> "assign_invalid",
     source |->
        <<"a", " ", "o", "r", " ", "b", " ", "=", " ", "1", ";">>,
     lhs_expr |-> "Logical",
     target_span |-> Span_new(0, 6)]

\* a and b = 1;
T221 ==
    [family |-> "assign_invalid",
     source |->
        <<"a", " ", "a", "n", "d", " ", "b", " ", "=", " ", "1", ";">>,
     lhs_expr |-> "Logical",
     target_span |-> Span_new(0, 7)]

\* (a + b) = 1;
T222 ==
    [family |-> "assign_invalid",
     source |->
        <<"(", "a", " ", "+", " ", "b", ")", " ", "=", " ", "1", ";">>,
     lhs_expr |-> "Grouping",
     target_span |-> Span_new(0, 7)]

\* print ; print 7; print 1 2; print 8;
T223 ==
    [family |-> "two_malformed",
     source |->
        <<"p", "r", "i", "n", "t", " ", ";", " ", "p", "r", "i", "n", "t", " ", "7",
        ";", " ", "p", "r", "i", "n", "t", " ", "1", " ", "2", ";", " ", "p", "r", "i",
        "n", "t", " ", "8", ";">>,
     first |-> Span_new(0, 7),
     second |-> Span_new(17, 27),
     good |-> {Span_new(14, 15), Span_new(34, 35)}]

\* print ; print ; print 8;
T224 ==
    [family |-> "two_malformed",
     source |->
        <<"p", "r", "i", "n", "t", " ", ";", " ", "p", "r", "i", "n", "t", " ", ";",
        " ", "p", "r", "i", "n", "t", " ", "8", ";">>,
     first |-> Span_new(0, 7),
     second |-> Span_new(8, 15),
     good |-> {Span_new(22, 23)}]

\* print 1 2; print 7; 1 + ; print 8;
T225 ==
    [family |-> "two_malformed",
     source |->
        <<"p", "r", "i", "n", "t", " ", "1", " ", "2", ";", " ", "p", "r", "i", "n",
        "t", " ", "7", ";", " ", "1", " ", "+", " ", ";", " ", "p", "r", "i", "n", "t",
        " ", "8", ";">>,
     first |-> Span_new(0, 10),
     second |-> Span_new(20, 25),
     good |-> {Span_new(17, 18), Span_new(32, 33)}]

\* print 1 2; print ; print 8;
T226 ==
    [family |-> "two_malformed",
     source |->
        <<"p", "r", "i", "n", "t", " ", "1", " ", "2", ";", " ", "p", "r", "i", "n",
        "t", " ", ";", " ", "p", "r", "i", "n", "t", " ", "8", ";">>,
     first |-> Span_new(0, 10),
     second |-> Span_new(11, 18),
     good |-> {Span_new(25, 26)}]

\* 1 + ; print 7; (1; print 8;
T227 ==
    [family |-> "two_malformed",
     source |->
        <<"1", " ", "+", " ", ";", " ", "p", "r", "i", "n", "t", " ", "7", ";", " ",
        "(", "1", ";", " ", "p", "r", "i", "n", "t", " ", "8", ";">>,
     first |-> Span_new(0, 5),
     second |-> Span_new(15, 18),
     good |-> {Span_new(12, 13), Span_new(25, 26)}]

\* 1 + ; print ; print 8;
T228 ==
    [family |-> "two_malformed",
     source |->
        <<"1", " ", "+", " ", ";", " ", "p", "r", "i", "n", "t", " ", ";", " ", "p",
        "r", "i", "n", "t", " ", "8", ";">>,
     first |-> Span_new(0, 5),
     second |-> Span_new(6, 13),
     good |-> {Span_new(20, 21)}]

\* (1; print 7; a = ; print 8;
T229 ==
    [family |-> "two_malformed",
     source |->
        <<"(", "1", ";", " ", "p", "r", "i", "n", "t", " ", "7", ";", " ", "a", " ",
        "=", " ", ";", " ", "p", "r", "i", "n", "t", " ", "8", ";">>,
     first |-> Span_new(0, 3),
     second |-> Span_new(13, 18),
     good |-> {Span_new(10, 11), Span_new(25, 26)}]

\* (1; print ; print 8;
T230 ==
    [family |-> "two_malformed",
     source |->
        <<"(", "1", ";", " ", "p", "r", "i", "n", "t", " ", ";", " ", "p", "r", "i",
        "n", "t", " ", "8", ";">>,
     first |-> Span_new(0, 3),
     second |-> Span_new(4, 11),
     good |-> {Span_new(18, 19)}]

\* a = ; print 7; var ; print 8;
T231 ==
    [family |-> "two_malformed",
     source |->
        <<"a", " ", "=", " ", ";", " ", "p", "r", "i", "n", "t", " ", "7", ";", " ",
        "v", "a", "r", " ", ";", " ", "p", "r", "i", "n", "t", " ", "8", ";">>,
     first |-> Span_new(0, 5),
     second |-> Span_new(15, 20),
     good |-> {Span_new(12, 13), Span_new(27, 28)}]

\* a = ; print ; print 8;
T232 ==
    [family |-> "two_malformed",
     source |->
        <<"a", " ", "=", " ", ";", " ", "p", "r", "i", "n", "t", " ", ";", " ", "p",
        "r", "i", "n", "t", " ", "8", ";">>,
     first |-> Span_new(0, 5),
     second |-> Span_new(6, 13),
     good |-> {Span_new(20, 21)}]

\* var ; print 7; var x = ; print 8;
T233 ==
    [family |-> "two_malformed",
     source |->
        <<"v", "a", "r", " ", ";", " ", "p", "r", "i", "n", "t", " ", "7", ";", " ",
        "v", "a", "r", " ", "x", " ", "=", " ", ";", " ", "p", "r", "i", "n", "t", " ",
        "8", ";">>,
     first |-> Span_new(0, 5),
     second |-> Span_new(15, 24),
     good |-> {Span_new(12, 13), Span_new(31, 32)}]

\* var ; print ; print 8;
T234 ==
    [family |-> "two_malformed",
     source |->
        <<"v", "a", "r", " ", ";", " ", "p", "r", "i", "n", "t", " ", ";", " ", "p",
        "r", "i", "n", "t", " ", "8", ";">>,
     first |-> Span_new(0, 5),
     second |-> Span_new(6, 13),
     good |-> {Span_new(20, 21)}]

\* var x = ; print 7; var 1 = 2; print 8;
T235 ==
    [family |-> "two_malformed",
     source |->
        <<"v", "a", "r", " ", "x", " ", "=", " ", ";", " ", "p", "r", "i", "n", "t",
        " ", "7", ";", " ", "v", "a", "r", " ", "1", " ", "=", " ", "2", ";", " ", "p",
        "r", "i", "n", "t", " ", "8", ";">>,
     first |-> Span_new(0, 9),
     second |-> Span_new(19, 29),
     good |-> {Span_new(16, 17), Span_new(36, 37)}]

\* var x = ; print ; print 8;
T236 ==
    [family |-> "two_malformed",
     source |->
        <<"v", "a", "r", " ", "x", " ", "=", " ", ";", " ", "p", "r", "i", "n", "t",
        " ", ";", " ", "p", "r", "i", "n", "t", " ", "8", ";">>,
     first |-> Span_new(0, 9),
     second |-> Span_new(10, 17),
     good |-> {Span_new(24, 25)}]

\* var 1 = 2; print 7; f(1; print 8;
T237 ==
    [family |-> "two_malformed",
     source |->
        <<"v", "a", "r", " ", "1", " ", "=", " ", "2", ";", " ", "p", "r", "i", "n",
        "t", " ", "7", ";", " ", "f", "(", "1", ";", " ", "p", "r", "i", "n", "t", " ",
        "8", ";">>,
     first |-> Span_new(0, 10),
     second |-> Span_new(20, 24),
     good |-> {Span_new(17, 18), Span_new(31, 32)}]

\* var 1 = 2; print ; print 8;
T238 ==
    [family |-> "two_malformed",
     source |->
        <<"v", "a", "r", " ", "1", " ", "=", " ", "2", ";", " ", "p", "r", "i", "n",
        "t", " ", ";", " ", "p", "r", "i", "n", "t", " ", "8", ";">>,
     first |-> Span_new(0, 10),
     second |-> Span_new(11, 18),
     good |-> {Span_new(25, 26)}]

\* f(1; print 7; f(,); print 8;
T239 ==
    [family |-> "two_malformed",
     source |->
        <<"f", "(", "1", ";", " ", "p", "r", "i", "n", "t", " ", "7", ";", " ", "f",
        "(", ",", ")", ";", " ", "p", "r", "i", "n", "t", " ", "8", ";">>,
     first |-> Span_new(0, 4),
     second |-> Span_new(14, 19),
     good |-> {Span_new(11, 12), Span_new(26, 27)}]

\* f(1; print ; print 8;
T240 ==
    [family |-> "two_malformed",
     source |->
        <<"f", "(", "1", ";", " ", "p", "r", "i", "n", "t", " ", ";", " ", "p", "r",
        "i", "n", "t", " ", "8", ";">>,
     first |-> Span_new(0, 4),
     second |-> Span_new(5, 12),
     good |-> {Span_new(19, 20)}]

\* f(,); print 7; 1 = 2; print 8;
T241 ==
    [family |-> "two_malformed",
     source |->
        <<"f", "(", ",", ")", ";", " ", "p", "r", "i", "n", "t", " ", "7", ";", " ",
        "1", " ", "=", " ", "2", ";", " ", "p", "r", "i", "n", "t", " ", "8", ";">>,
     first |-> Span_new(0, 5),
     second |-> Span_new(15, 21),
     good |-> {Span_new(12, 13), Span_new(28, 29)}]

\* f(,); print ; print 8;
T242 ==
    [family |-> "two_malformed",
     source |->
        <<"f", "(", ",", ")", ";", " ", "p", "r", "i", "n", "t", " ", ";", " ", "p",
        "r", "i", "n", "t", " ", "8", ";">>,
     first |-> Span_new(0, 5),
     second |-> Span_new(6, 13),
     good |-> {Span_new(20, 21)}]

\* 1 = 2; print 7; if (a ; print 8;
T243 ==
    [family |-> "two_malformed",
     source |->
        <<"1", " ", "=", " ", "2", ";", " ", "p", "r", "i", "n", "t", " ", "7", ";",
        " ", "i", "f", " ", "(", "a", " ", ";", " ", "p", "r", "i", "n", "t", " ", "8",
        ";">>,
     first |-> Span_new(0, 6),
     second |-> Span_new(16, 23),
     good |-> {Span_new(13, 14), Span_new(30, 31)}]

\* 1 = 2; print ; print 8;
T244 ==
    [family |-> "two_malformed",
     source |->
        <<"1", " ", "=", " ", "2", ";", " ", "p", "r", "i", "n", "t", " ", ";", " ",
        "p", "r", "i", "n", "t", " ", "8", ";">>,
     first |-> Span_new(0, 6),
     second |-> Span_new(7, 14),
     good |-> {Span_new(21, 22)}]

\* if (a ; print 7; while a) ; print 8;
T245 ==
    [family |-> "two_malformed",
     source |->
        <<"i", "f", " ", "(", "a", " ", ";", " ", "p", "r", "i", "n", "t", " ", "7",
        ";", " ", "w", "h", "i", "l", "e", " ", "a", ")", " ", ";", " ", "p", "r", "i",
        "n", "t", " ", "8", ";">>,
     first |-> Span_new(0, 7),
     second |-> Span_new(17, 27),
     good |-> {Span_new(14, 15), Span_new(34, 35)}]

\* if (a ; print ; print 8;
T246 ==
    [family |-> "two_malformed",
     source |->
        <<"i", "f", " ", "(", "a", " ", ";", " ", "p", "r", "i", "n", "t", " ", ";",
        " ", "p", "r", "i", "n", "t", " ", "8", ";">>,
     first |-> Span_new(0, 7),
     second |-> Span_new(8, 15),
     good |-> {Span_new(22, 23)}]

\* while a) ; print 7; * 2; print 8;
T247 ==
    [family |-> "two_malformed",
     source |->
        <<"w", "h", "i", "l", "e", " ", "a", ")", " ", ";", " ", "p", "r", "i", "n",
        "t", " ", "7", ";", " ", "*", " ", "2", ";", " ", "p", "r", "i", "n", "t", " ",
        "8", ";">>,
     first |-> Span_new(0, 10),
     second |-> Span_new(20, 24),
     good |-> {Span_new(17, 18), Span_new(31, 32)}]

\* while a) ; print ; print 8;
T248 ==
    [family |-> "two_malformed",
     source |->
        <<"w", "h", "i", "l", "e", " ", "a", ")", " ", ";", " ", "p", "r", "i", "n",
        "t", " ", ";", " ", "p", "r", "i", "n", "t", " ", "8", ";">>,
     first |-> Span_new(0, 10),
     second |-> Span_new(11, 18),
     good |-> {Span_new(25, 26)}]

\* * 2; print 7; ); print 8;
T249 ==
    [family |-> "two_malformed",
     source |->
        <<"*", " ", "2", ";", " ", "p", "r", "i", "n", "t", " ", "7", ";", " ", ")",
        ";", " ", "p", "r", "i", "n", "t", " ", "8", ";">>,
     first |-> Span_new(0, 4),
     second |-> Span_new(14, 16),
     good |-> {Span_new(11, 12), Span_new(23, 24)}]

\* * 2; print ; print 8;
T250 ==
    [family |-> "two_malformed",
     source |->
        <<"*", " ", "2", ";", " ", "p", "r", "i", "n", "t", " ", ";", " ", "p", "r",
        "i", "n", "t", " ", "8", ";">>,
     first |-> Span_new(0, 4),
     second |-> Span_new(5, 12),
     good |-> {Span_new(19, 20)}]

\* ); print 7; fun ; print 8;
T251 ==
    [family |-> "two_malformed",
     source |->
        <<")", ";", " ", "p", "r", "i", "n", "t", " ", "7", ";", " ", "f", "u", "n",
        " ", ";", " ", "p", "r", "i", "n", "t", " ", "8", ";">>,
     first |-> Span_new(0, 2),
     second |-> Span_new(12, 17),
     good |-> {Span_new(9, 10), Span_new(24, 25)}]

\* ); print ; print 8;
T252 ==
    [family |-> "two_malformed",
     source |->
        <<")", ";", " ", "p", "r", "i", "n", "t", " ", ";", " ", "p", "r", "i", "n",
        "t", " ", "8", ";">>,
     first |-> Span_new(0, 2),
     second |-> Span_new(3, 10),
     good |-> {Span_new(17, 18)}]

\* fun ; print 7; print var; print 8;
T253 ==
    [family |-> "two_malformed",
     source |->
        <<"f", "u", "n", " ", ";", " ", "p", "r", "i", "n", "t", " ", "7", ";", " ",
        "p", "r", "i", "n", "t", " ", "v", "a", "r", ";", " ", "p", "r", "i", "n", "t",
        " ", "8", ";">>,
     first |-> Span_new(0, 5),
     second |-> Span_new(15, 25),
     good |-> {Span_new(12, 13), Span_new(32, 33)}]

\* fun ; print ; print 8;
T254 ==
    [family |-> "two_malformed",
     source |->
        <<"f", "u", "n", " ", ";", " ", "p", "r", "i", "n", "t", " ", ";", " ", "p",
        "r", "i", "n", "t", " ", "8", ";">>,
     first |-> Span_new(0, 5),
     second |-> Span_new(6, 13),
     good |-> {Span_new(20, 21)}]

\* print var; print 7; 1 2 var; print 8;
T255 ==
    [family |-> "two_malformed",
     source |->
        <<"p", "r", "i", "n", "t", " ", "v", "a", "r", ";", " ", "p", "r", "i", "n",
        "t", " ", "7", ";", " ", "1", " ", "2", " ", "v", "a", "r", ";", " ", "p", "r",
        "i", "n", "t", " ", "8", ";">>,
     first |-> Span_new(0, 10),
     second |-> Span_new(20, 28),
     good |-> {Span_new(17, 18), Span_new(35, 36)}]

\* print var; print ; print 8;
T256 ==
    [family |-> "two_malformed",
     source |->
        <<"p", "r", "i", "n", "t", " ", "v", "a", "r", ";", " ", "p", "r", "i", "n",
        "t", " ", ";", " ", "p", "r", "i", "n", "t", " ", "8", ";">>,
     first |-> Span_new(0, 10),
     second |-> Span_new(11, 18),
     good |-> {Span_new(25, 26)}]

\* 1 2 var; print 7; print print 1; print 8;
T257 ==
    [family |-> "two_malformed",
     source |->
        <<"1", " ", "2", " ", "v", "a", "r", ";", " ", "p", "r", "i", "n", "t", " ",
        "7", ";", " ", "p", "r", "i", "n", "t", " ", "p", "r", "i", "n", "t", " ", "1",
        ";", " ", "p", "r", "i", "n", "t", " ", "8", ";">>,
     first |-> Span_new(0, 8),
     second |-> Span_new(18, 32),
     good |-> {Span_new(15, 16), Span_new(39, 40)}]

\* 1 2 var; print ; print 8;
T258 ==
    [family |-> "two_malformed",
     source |->
        <<"1", " ", "2", " ", "v", "a", "r", ";", " ", "p", "r", "i", "n", "t", " ",
        ";", " ", "p", "r", "i", "n", "t", " ", "8", ";">>,
     first |-> Span_new(0, 8),
     second |-> Span_new(9, 16),
     good |-> {Span_new(23, 24)}]

\* print print 1; print 7; a b c d; print 8;
T259 ==
    [family |-> "two_malformed",
     source |->
        <<"p", "r", "i", "n", "t", " ", "p", "r", "i", "n", "t", " ", "1", ";", " ",
        "p", "r", "i", "n", "t", " ", "7", ";", " ", "a", " ", "b", " ", "c", " ", "d",
        ";", " ", "p", "r", "i", "n", "t", " ", "8", ";">>,
     first |-> Span_new(0, 14),
     second |-> Span_new(24, 32),
     good |-> {Span_new(21, 22), Span_new(39, 40)}]

\* print print 1; print ; print 8;
T260 ==
    [family |-> "two_malformed",
     source |->
        <<"p", "r", "i", "n", "t", " ", "p", "r", "i", "n", "t", " ", "1", ";", " ",
        "p", "r", "i", "n", "t", " ", ";", " ", "p", "r", "i", "n", "t", " ", "8",
        ";">>,
     first |-> Span_new(0, 14),
     second |-> Span_new(15, 22),
     good |-> {Span_new(29, 30)}]

\* a b c d; print 7; print ; print 8;
T261 ==
    [family |-> "two_malformed",
     source |->
        <<"a", " ", "b", " ", "c", " ", "d", ";", " ", "p", "r", "i", "n", "t", " ",
        "7", ";", " ", "p", "r", "i", "n", "t", " ", ";", " ", "p", "r", "i", "n", "t",
        " ", "8", ";">>,
     first |-> Span_new(0, 8),
     second |-> Span_new(18, 25),
     good |-> {Span_new(15, 16), Span_new(32, 33)}]

\* a b c d; print ; print 8;
T262 ==
    [family |-> "two_malformed",
     source |->
        <<"a", " ", "b", " ", "c", " ", "d", ";", " ", "p", "r", "i", "n", "t", " ",
        ";", " ", "p", "r", "i", "n", "t", " ", "8", ";">>,
     first |-> Span_new(0, 8),
     second |-> Span_new(9, 16),
     good |-> {Span_new(23, 24)}]

\* (a) = 1; print 7; print ; print 8;
T263 ==
    [family |-> "two_malformed_target",
     source |->
        <<"(", "a", ")", " ", "=", " ", "1", ";", " ", "p", "r", "i", "n", "t", " ",
        "7", ";", " ", "p", "r", "i", "n", "t", " ", ";", " ", "p", "r", "i", "n", "t",
        " ", "8", ";">>,
     first |-> Span_new(0, 8),
     second |-> Span_new(18, 25),
     good |-> {Span_new(15, 16), Span_new(32, 33)}]

\* print ; print 7; (a) = 1; print 8;
T264 ==
    [family |-> "two_malformed_target",
     source |->
        <<"p", "r", "i", "n", "t", " ", ";", " ", "p", "r", "i", "n", "t", " ", "7",
        ";", " ", "(", "a", ")", " ", "=", " ", "1", ";", " ", "p", "r", "i", "n", "t",
        " ", "8", ";">>,
     first |-> Span_new(0, 7),
     second |-> Span_new(17, 25),
     good |-> {Span_new(14, 15), Span_new(32, 33)}]

\* -a = 1; print 7; print ; print 8;
T265 ==
    [family |-> "two_malformed_target",
     source |->
        <<"-", "a", " ", "=", " ", "1", ";", " ", "p", "r", "i", "n", "t", " ", "7",
        ";", " ", "p", "r", "i", "n", "t", " ", ";", " ", "p", "r", "i", "n", "t", " ",
        "8", ";">>,
     first |-> Span_new(0, 7),
     second |-> Span_new(17, 24),
     good |-> {Span_new(14, 15), Span_new(31, 32)}]

\* print ; print 7; -a = 1; print 8;
T266 ==
    [family |-> "two_malformed_target",
     source |->
        <<"p", "r", "i", "n", "t", " ", ";", " ", "p", "r", "i", "n", "t", " ", "7",
        ";", " ", "-", "a", " ", "=", " ", "1", ";", " ", "p", "r", "i", "n", "t", " ",
        "8", ";">>,
     first |-> Span_new(0, 7),
     second |-> Span_new(17, 24),
     good |-> {Span_new(14, 15), Span_new(31, 32)}]

\* a or b = 1; print 7; print ; print 8;
T267 ==
    [family |-> "two_malformed_target",
     source |->
        <<"a", " ", "o", "r", " ", "b", " ", "=", " ", "1", ";", " ", "p", "r", "i",
        "n", "t", " ", "7", ";", " ", "p", "r", "i", "n", "t", " ", ";", " ", "p", "r",
        "i", "n", "t", " ", "8", ";">>,
     first |-> Span_new(0, 11),
     second |-> Span_new(21, 28),
     good |-> {Span_new(18, 19), Span_new(35, 36)}]

\* print ; print 7; a or b = 1; print 8;
T268 ==
    [family |-> "two_malformed_target",
     source |->
        <<"p", "r", "i", "n", "t", " ", ";", " ", "p", "r", "i", "n", "t", " ", "7",
        ";", " ", "a", " ", "o", "r", " ", "b", " ", "=", " ", "1", ";", " ", "p", "r",
        "i", "n", "t", " ", "8", ";">>,
     first |-> Span_new(0, 7),
     second |-> Span_new(17, 28),
     good |-> {Span_new(14, 15), Span_new(35, 36)}]

\* for (; print 7; print ; print 8;
T269 ==
    [family |-> "two_malformed_clause",
     source |->
        <<"f", "o", "r", " ", "(", ";", " ", "p", "r", "i", "n", "t", " ", "7", ";",
        " ", "p", "r", "i", "n", "t", " ", ";", " ", "p", "r", "i", "n", "t", " ", "8",
        ";">>,
     first |-> Span_new(0, 6),
     second |-> Span_new(16, 23),
     good |-> {Span_new(13, 14), Span_new(30, 31)}]

\* f();
T270 ==
    [family |-> "list",
     source |->
        <<"f", "(", ")", ";">>,
     function |-> FALSE,
     n |-> 0]

\* fun f(){}
T271 ==
    [family |-> "list",
     source |->
        <<"f", "u", "n", " ", "f", "(", ")", "{", "}">>,
     function |-> TRUE,
     n |-> 0]

\* f(a);
T272 ==
    [family |-> "list",
     source |->
        <<"f", "(", "a", ")", ";">>,
     function |-> FALSE,
     n |-> 1]

\* fun f(a){}
T273 ==
    [family |-> "list",
     source |->
        <<"f", "u", "n", " ", "f", "(", "a", ")", "{", "}">>,
     function |-> TRUE,
     n |-> 1]

\* f(a,a);
T274 ==
    [family |-> "list",
     source |->
        <<"f", "(", "a", ",", "a", ")", ";">>,
     function |-> FALSE,
     n |-> 2]

\* fun f(a,a){}
T275 ==
    [family |-> "list",
     source |->
        <<"f", "u", "n", " ", "f", "(", "a", ",", "a", ")", "{", "}">>,
     function |-> TRUE,
     n |-> 2]

\* f(a,a,a);
T276 ==
    [family |-> "list",
     source |->
        <<"f", "(", "a", ",", "a", ",", "a", ")", ";">>,
     function |-> FALSE,
     n |-> 3]

\* fun f(a,a,a){}
T277 ==
    [family |-> "list",
     source |->
        <<"f", "u", "n", " ", "f", "(", "a", ",", "a", ",", "a", ")", "{", "}">>,
     function |-> TRUE,
     n |-> 3]

\* 
T278 ==
    [family |-> "lexing",
     source |->
        <<>>,
     ascii |-> TRUE]

\*  
T279 ==
    [family |-> "lexing",
     source |->
        <<" ">>,
     ascii |-> TRUE]

\* \n
T280 ==
    [family |-> "lexing",
     source |->
        <<"\n">>,
     ascii |-> TRUE]

\* \t\r\n 
T281 ==
    [family |-> "lexing",
     source |->
        <<"\t", "\r", "\n", " ">>,
     ascii |-> TRUE]

\* 1
T282 ==
    [family |-> "lexing",
     source |->
        <<"1">>,
     ascii |-> TRUE]

\* 12.5
T283 ==
    [family |-> "lexing",
     source |->
        <<"1", "2", ".", "5">>,
     ascii |-> TRUE]

\* 1.
T284 ==
    [family |-> "lexing",
     source |->
        <<"1", ".">>,
     ascii |-> TRUE]

\* a.b
T285 ==
    [family |-> "lexing",
     source |->
        <<"a", ".", "b">>,
     ascii |-> TRUE]

\* var x = 1;
T286 ==
    [family |-> "lexing",
     source |->
        <<"v", "a", "r", " ", "x", " ", "=", " ", "1", ";">>,
     ascii |-> TRUE]

\* print "hi";
T287 ==
    [family |-> "lexing",
     source |->
        <<"p", "r", "i", "n", "t", " ", "\"", "h", "i", "\"", ";">>,
     ascii |-> TRUE]

\* != == <= >= ! = < > /
T288 ==
    [family |-> "lexing",
     source |->
        <<"!", "=", " ", "=", "=", " ", "<", "=", " ", ">", "=", " ", "!", " ", "=",
        " ", "<", " ", ">", " ", "/">>,
     ascii |-> TRUE]

\* // only a comment
T289 ==
    [family |-> "lexing",
     source |->
        <<"/", "/", " ", "o", "n", "l", "y", " ", "a", " ", "c", "o", "m", "m", "e",
        "n", "t">>,
     ascii |-> TRUE]

\* 1 // c\n2
T290 ==
    [family |-> "lexing",
     source |->
        <<"1", " ", "/", "/", " ", "c", "\n", "2">>,
     ascii |-> TRUE]

\* @
T291 ==
    [family |-> "lexing",
     source |->
        <<"@">>,
     ascii |-> TRUE]

\* @@
T292 ==
    [family |-> "lexing",
     source |->
        <<"@", "@">>,
     ascii |-> TRUE]

\* 1 @ 2
T293 ==
    [family |-> "lexing",
     source |->
        <<"1", " ", "@", " ", "2">>,
     ascii |-> TRUE]

\* a # b ~
T294 ==
    [family |-> "lexing",
     source |->
        <<"a", " ", "#", " ", "b", " ", "~">>,
     ascii |-> TRUE]

\* "abc
T295 ==
    [family |-> "lexing",
     source |->
        <<"\"", "a", "b", "c">>,
     ascii |-> TRUE]

\* "abc" @
T296 ==
    [family |-> "lexing",
     source |->
        <<"\"", "a", "b", "c", "\"", " ", "@">>,
     ascii |-> TRUE]

\* x "un\nterminated
T297 ==
    [family |-> "lexing",
     source |->
        <<"x", " ", "\"", "u", "n", "\n", "t", "e", "r", "m", "i", "n", "a", "t", "e",
        "d">>,
     ascii |-> TRUE]

\* "two\nlines"
T298 ==
    [family |-> "lexing",
     source |->
        <<"\"", "t", "w", "o", "\n", "l", "i", "n", "e", "s", "\"">>,
     ascii |-> TRUE]

\* while_1 nil2 or
T299 ==
    [family |-> "lexing",
     source |->
        <<"w", "h", "i", "l", "e", "_", "1", " ", "n", "i", "l", "2", " ", "o", "r">>,
     ascii |-> TRUE]

\* \u00e9
T300 ==
    [family |-> "lexing",
     source |->
        <<"C3", "A9">>,
     ascii |-> FALSE]

\* \u20ac\u00e9
T301 ==
    [family |-> "lexing",
     source |->
        <<"E2", "82", "AC", "C3", "A9">>,
     ascii |-> FALSE]

\* "\u00e9"
T302 ==
    [family |-> "lexing",
     source |->
        <<"\"", "C3", "A9", "\"">>,
     ascii |-> FALSE]

\* "\u00e9" xy
T303 ==
    [family |-> "lexing",
     source |->
        <<"\"", "C3", "A9", "\"", " ", "x", "y">>,
     ascii |-> FALSE]

\* "\u20ac";
T304 ==
    [family |-> "lexing",
     source |->
        <<"\"", "E2", "82", "AC", "\"", ";">>,
     ascii |-> FALSE]

\* // \u00e9\n1
T305 ==
    [family |-> "lexing",
     source |->
        <<"/", "/", " ", "C3", "A9", "\n", "1">>,
     ascii |-> FALSE]

\* // \u00e9\nprint 1;
T306 ==
    [family |-> "lexing",
     source |->
        <<"/", "/", " ", "C3", "A9", "\n", "p", "r", "i", "n", "t", " ", "1", ";">>,
     ascii |-> FALSE]

\* \u00e9a
T307 ==
    [family |-> "lexing",
     source |->
        <<"C3", "A9", "a">>,
     ascii |-> FALSE]

\* \u00e9 a
T308 ==
    [family |-> "lexing",
     source |->
        <<"C3", "A9", " ", "a">>,
     ascii |-> FALSE]

\* \u20ac 12
T309 ==
    [family |-> "lexing",
     source |->
        <<"E2", "82", "AC", " ", "1", "2">>,
     ascii |-> FALSE]

\* \u20ac+
T310 ==
    [family |-> "lexing",
     source |->
        <<"E2", "82", "AC", "+">>,
     ascii |-> FALSE]

\* "\u00e9
T311 ==
    [family |-> "lexing",
     source |->
        <<"\"", "C3", "A9">>,
     ascii |-> FALSE]

\* 1 \u00e9
T312 ==
    [family |-> "lexing",
     source |->
        <<"1", " ", "C3", "A9">>,
     ascii |-> FALSE]

\* a\u00e9
T313 ==
    [family |-> "lexing",
     source |->
        <<"a", "C3", "A9">>,
     ascii |-> FALSE]

\* "\u00e9\u00e9" or
T314 ==
    [family |-> "lexing",
     source |->
        <<"\"", "C3", "A9", "C3", "A9", "\"", " ", "o", "r">>,
     ascii |-> FALSE]

\* "\u20ac" 1.5 \u00e9
T315 ==
    [family |-> "lexing",
     source |->
        <<"\"", "E2", "82", "AC", "\"", " ", "1", ".", "5", " ", "C3", "A9">>,
     ascii |-> FALSE]

\* x = "\u00e9"; // \u20ac\ny
T316 ==
    [family |-> "lexing",
     source |->
        <<"x", " ", "=", " ", "\"", "C3", "A9", "\"", ";", " ", "/", "/", " ", "E2",
        "82", "AC", "\n", "y">>,
     ascii |-> FALSE]

\* 2.
T317 ==
    [family |-> "number",
     source |->
        <<"2", ".">>,
     want |->
        <<Token_new(0, 1, "Number"), Token_new(1, 2, "Dot"), Token_new(2, 3, "Eof")>>]

\* .2
T318 ==
    [family |-> "number",
     source |->
        <<".", "2">>,
     want |->
        <<Token_new(0, 1, "Dot"), Token_new(1, 2, "Number"), Token_new(2, 3, "Eof")>>]

\* 2.34
T319 ==
    [family |-> "number",
     source |->
        <<"2", ".", "3", "4">>,
     want |-> <<Token_new(0, 4, "Number"), Token_new(4, 5, "Eof")>>]

\* 1.2.3
T320 ==
    [family |-> "number",
     source |->
        <<"1", ".", "2", ".", "3">>,
     want |->
        <<Token_new(0, 3, "Number"), Token_new(3, 4, "Dot"), Token_new(4, 5, "Number"),
        Token_new(5, 6, "Eof")>>]

\* 1..2
T321 ==
    [family |-> "number",
     source |->
        <<"1", ".", ".", "2">>,
     want |->
        <<Token_new(0, 1, "Number"), Token_new(1, 2, "Dot"), Token_new(2, 3, "Dot"),
        Token_new(3, 4, "Number"), Token_new(4, 5, "Eof")>>]

\* 12.5.
T322 ==
    [family |-> "number",
     source |->
        <<"1", "2", ".", "5", ".">>,
     want |->
        <<Token_new(0, 4, "Number"), Token_new(4, 5, "Dot"), Token_new(5, 6, "Eof")>>]

\* 1. 2
T323 ==
    [family |-> "number",
     source |->
        <<"1", ".", " ", "2">>,
     want |->
        <<Token_new(0, 1, "Number"), Token_new(1, 2, "Dot"), Token_new(3, 4, "Number"),
        Token_new(4, 5, "Eof")>>]

\* 1.a
T324 ==
    [family |-> "number",
     source |->
        <<"1", ".", "a">>,
     want |->
        <<Token_new(0, 1, "Number"), Token_new(1, 2, "Dot"), Token_new(2, 3,
        "Identifier"), Token_new(3, 4, "Eof")>>]

\* 0.5+.5
T325 ==
    [family |-> "number",
     source |->
        <<"0", ".", "5", "+", ".", "5">>,
     want |->
        <<Token_new(0, 3, "Number"), Token_new(3, 4, "Plus"), Token_new(4, 5, "Dot"),
        Token_new(5, 6, "Number"), Token_new(6, 7, "Eof")>>]

\* 7
T326 ==
    [family |-> "number",
     source |->
        <<"7">>,
     want |-> <<Token_new(0, 1, "Number"), Token_new(1, 2, "Eof")>>]

\* 10.25 3.
T327 ==
    [family |-> "number",
     source |->
        <<"1", "0", ".", "2", "5", " ", "3", ".">>,
     want |->
        <<Token_new(0, 5, "Number"), Token_new(6, 7, "Number"), Token_new(7, 8, "Dot"),
        Token_new(8, 9, "Eof")>>]

\* .
T328 ==
    [family |-> "number",
     source |->
        <<".">>,
     want |-> <<Token_new(0, 1, "Dot"), Token_new(1, 2, "Eof")>>]

\* ..
T329 ==
    [family |-> "number",
     source |->
        <<".", ".">>,
     want |->
        <<Token_new(0, 1, "Dot"), Token_new(1, 2, "Dot"), Token_new(2, 3, "Eof")>>]

\* 1.2.
T330 ==
    [family |-> "number",
     source |->
        <<"1", ".", "2", ".">>,
     want |->
        <<Token_new(0, 3, "Number"), Token_new(3, 4, "Dot"), Token_new(4, 5, "Eof")>>]

\* 3 .4
T331 ==
    [family |-> "number",
     source |->
        <<"3", " ", ".", "4">>,
     want |->
        <<Token_new(0, 1, "Number"), Token_new(2, 3, "Dot"), Token_new(3, 4, "Number"),
        Token_new(4, 5, "Eof")>>]

\* 2.+1
T332 ==
    [family |-> "number",
     source |->
        <<"2", ".", "+", "1">>,
     want |->
        <<Token_new(0, 1, "Number"), Token_new(1, 2, "Dot"), Token_new(2, 3, "Plus"),
        Token_new(3, 4, "Number"), Token_new(4, 5, "Eof")>>]

\*  "hello" 
T333 ==
    [family |-> "string",
     source |->
        <<" ", "\"", "h", "e", "l", "l", "o", "\"", " ">>,
     want |-> <<Token_new(1, 8, "String_"), Token_new(9, 10, "Eof")>>,
     open_at |-> -1]

\* "
T334 ==
    [family |-> "string",
     source |->
        <<"\"">>,
     want |-> <<Token_new(1, 2, "Eof")>>,
     open_at |-> 0]

\* ""
T335 ==
    [family |-> "string",
     source |->
        <<"\"", "\"">>,
     want |-> <<Token_new(0, 2, "String_"), Token_new(2, 3, "Eof")>>,
     open_at |-> -1]

\* "a
T336 ==
    [family |-> "string",
     source |->
        <<"\"", "a">>,
     want |-> <<Token_new(2, 3, "Eof")>>,
     open_at |-> 0]

\* x = "a
T337 ==
    [family |-> "string",
     source |->
        <<"x", " ", "=", " ", "\"", "a">>,
     want |->
        <<Token_new(0, 1, "Identifier"), Token_new(2, 3, "Equal"), Token_new(6, 7,
        "Eof")>>,
     open_at |-> 4]

\* x = "a";
T338 ==
    [family |-> "string",
     source |->
        <<"x", " ", "=", " ", "\"", "a", "\"", ";">>,
     want |->
        <<Token_new(0, 1, "Identifier"), Token_new(2, 3, "Equal"), Token_new(4, 7,
        "String_"), Token_new(7, 8, "Semicolon"), Token_new(8, 9, "Eof")>>,
     open_at |-> -1]

\* "a" "b
T339 ==
    [family |-> "string",
     source |->
        <<"\"", "a", "\"", " ", "\"", "b">>,
     want |-> <<Token_new(0, 3, "String_"), Token_new(6, 7, "Eof")>>,
     open_at |-> 4]

\* "a" + "b";
T340 ==
    [family |-> "string",
     source |->
        <<"\"", "a", "\"", " ", "+", " ", "\"", "b", "\"", ";">>,
     want |->
        <<Token_new(0, 3, "String_"), Token_new(4, 5, "Plus"), Token_new(6, 9,
        "String_"), Token_new(9, 10, "Semicolon"), Token_new(10, 11, "Eof")>>,
     open_at |-> -1]

\* 1 "
T341 ==
    [family |-> "string",
     source |->
        <<"1", " ", "\"">>,
     want |-> <<Token_new(0, 1, "Number"), Token_new(3, 4, "Eof")>>,
     open_at |-> 2]

\* "\n"
T342 ==
    [family |-> "string",
     source |->
        <<"\"", "\n", "\"">>,
     want |-> <<Token_new(0, 3, "String_"), Token_new(3, 4, "Eof")>>,
     open_at |-> -1]

\* "a\nb
T343 ==
    [family |-> "string",
     source |->
        <<"\"", "a", "\n", "b">>,
     want |-> <<Token_new(4, 5, "Eof")>>,
     open_at |-> 0]

\* x;\n"never // closed\n1;
T344 ==
    [family |-> "string",
     source |->
        <<"x", ";", "\n", "\"", "n", "e", "v", "e", "r", " ", "/", "/", " ", "c", "l",
        "o", "s", "e", "d", "\n", "1", ";">>,
     want |->
        <<Token_new(0, 1, "Identifier"), Token_new(1, 2, "Semicolon"), Token_new(22,
        23, "Eof")>>,
     open_at |-> 3]

\* // "\n1
T345 ==
    [family |-> "string",
     source |->
        <<"/", "/", " ", "\"", "\n", "1">>,
     want |-> <<Token_new(5, 6, "Number"), Token_new(6, 7, "Eof")>>,
     open_at |-> -1]

\* "//"
T346 ==
    [family |-> "string",
     source |->
        <<"\"", "/", "/", "\"">>,
     want |-> <<Token_new(0, 4, "String_"), Token_new(4, 5, "Eof")>>,
     open_at |-> -1]

\* "a"x"
T347 ==
    [family |-> "string",
     source |->
        <<"\"", "a", "\"", "x", "\"">>,
     want |->
        <<Token_new(0, 3, "String_"), Token_new(3, 4, "Identifier"), Token_new(5, 6,
        "Eof")>>,
     open_at |-> 4]

\* "\u00e9" "\u20ac
T348 ==
    [family |-> "string",
     source |->
        <<"\"", "C3", "A9", "\"", " ", "\"", "E2", "82", "AC">>,
     want |-> <<Token_new(0, 3, "String_"), Token_new(6, 7, "Eof")>>,
     open_at |-> 4]

\* "\u00e9\u00e9" 1 "x
T349 ==
    [family |-> "string",
     source |->
        <<"\"", "C3", "A9", "C3", "A9", "\"", " ", "1", " ", "\"", "x">>,
     want |->
        <<Token_new(0, 4, "String_"), Token_new(5, 6, "Number"), Token_new(9, 10,
        "Eof")>>,
     open_at |-> 7]

\* """"
T350 ==
    [family |-> "string",
     source |->
        <<"\"", "\"", "\"", "\"">>,
     want |->
        <<Token_new(0, 2, "String_"), Token_new(2, 4, "String_"), Token_new(4, 5,
        "Eof")>>,
     open_at |-> -1]

\* """
T351 ==
    [family |-> "string",
     source |->
        <<"\"", "\"", "\"">>,
     want |-> <<Token_new(0, 2, "String_"), Token_new(3, 4, "Eof")>>,
     open_at |-> 2]

\* for (; ; ) print i;
T352 ==
    [family |-> "for_shape",
     source |->
        <<"f", "o", "r", " ", "(", ";", " ", ";", " ", ")", " ", "p", "r", "i", "n",
        "t", " ", "i", ";">>,
     init |-> FALSE,
     cond |-> FALSE,
     incr |-> FALSE]

\* for (; ; i = i + 1) print i;
T353 ==
    [family |-> "for_shape",
     source |->
        <<"f", "o", "r", " ", "(", ";", " ", ";", " ", "i", " ", "=", " ", "i", " ",
        "+", " ", "1", ")", " ", "p", "r", "i", "n", "t", " ", "i", ";">>,
     init |-> FALSE,
     cond |-> FALSE,
     incr |-> TRUE]

\* for (; i < 2; ) print i;
T354 ==
    [family |-> "for_shape",
     source |->
        <<"f", "o", "r", " ", "(", ";", " ", "i", " ", "<", " ", "2", ";", " ", ")",
        " ", "p", "r", "i", "n", "t", " ", "i", ";">>,
     init |-> FALSE,
     cond |-> TRUE,
     incr |-> FALSE]

\* for (; i < 2; i = i + 1) print i;
T355 ==
    [family |-> "for_shape",
     source |->
        <<"f", "o", "r", " ", "(", ";", " ", "i", " ", "<", " ", "2", ";", " ", "i",
        " ", "=", " ", "i", " ", "+", " ", "1", ")", " ", "p", "r", "i", "n", "t", " ",
        "i", ";">>,
     init |-> FALSE,
     cond |-> TRUE,
     incr |-> TRUE]

\* for (var i = 0; ; ) print i;
T356 ==
    [family |-> "for_shape",
     source |->
        <<"f", "o", "r", " ", "(", "v", "a", "r", " ", "i", " ", "=", " ", "0", ";",
        " ", ";", " ", ")", " ", "p", "r", "i", "n", "t", " ", "i", ";">>,
     init |-> TRUE,
     cond |-> FALSE,
     incr |-> FALSE]

\* for (var i = 0; ; i = i + 1) print i;
T357 ==
    [family |-> "for_shape",
     source |->
        <<"f", "o", "r", " ", "(", "v", "a", "r", " ", "i", " ", "=", " ", "0", ";",
        " ", ";", " ", "i", " ", "=", " ", "i", " ", "+", " ", "1", ")", " ", "p", "r",
        "i", "n", "t", " ", "i", ";">>,
     init |-> TRUE,
     cond |-> FALSE,
     incr |-> TRUE]

\* for (var i = 0; i < 2; ) print i;
T358 ==
    [family |-> "for_shape",
     source |->
        <<"f", "o", "r", " ", "(", "v", "a", "r", " ", "i", " ", "=", " ", "0", ";",
        " ", "i", " ", "<", " ", "2", ";", " ", ")", " ", "p", "r", "i", "n", "t", " ",
        "i", ";">>,
     init |-> TRUE,
     cond |-> TRUE,
     incr |-> FALSE]

\* for (var i = 0; i < 2; i = i + 1) print i;
T359 ==
    [family |-> "for_shape",
     source |->
        <<"f", "o", "r", " ", "(", "v", "a", "r", " ", "i", " ", "=", " ", "0", ";",
        " ", "i", " ", "<", " ", "2", ";", " ", "i", " ", "=", " ", "i", " ", "+", " ",
        "1", ")", " ", "p", "r", "i", "n", "t", " ", "i", ";">>,
     init |-> TRUE,
     cond |-> TRUE,
     incr |-> TRUE]

\* for (i = 0; ; ) print i;
T360 ==
    [family |-> "for_shape",
     source |->
        <<"f", "o", "r", " ", "(", "i", " ", "=", " ", "0", ";", " ", ";", " ", ")",
        " ", "p", "r", "i", "n", "t", " ", "i", ";">>,
     init |-> TRUE,
     cond |-> FALSE,
     incr |-> FALSE]

\* for (i = 0; ; i = i + 1) print i;
T361 ==
    [family |-> "for_shape",
     source |->
        <<"f", "o", "r", " ", "(", "i", " ", "=", " ", "0", ";", " ", ";", " ", "i",
        " ", "=", " ", "i", " ", "+", " ", "1", ")", " ", "p", "r", "i", "n", "t", " ",
        "i", ";">>,
     init |-> TRUE,
     cond |-> FALSE,
     incr |-> TRUE]

\* for (i = 0; i < 2; ) print i;
T362 ==
    [family |-> "for_shape",
     source |->
        <<"f", "o", "r", " ", "(", "i", " ", "=", " ", "0", ";", " ", "i", " ", "<",
        " ", "2", ";", " ", ")", " ", "p", "r", "i", "n", "t", " ", "i", ";">>,
     init |-> TRUE,
     cond |-> TRUE,
     incr |-> FALSE]

\* for (i = 0; i < 2; i = i + 1) print i;
T363 ==
    [family |-> "for_shape",
     source |->
        <<"f", "o", "r", " ", "(", "i", " ", "=", " ", "0", ";", " ", "i", " ", "<",
        " ", "2", ";", " ", "i", " ", "=", " ", "i", " ", "+", " ", "1", ")", " ", "p",
        "r", "i", "n", "t", " ", "i", ";">>,
     init |-> TRUE,
     cond |-> TRUE,
     incr |-> TRUE]

\* for (var i = 0;; i = i + 1) { print i; if (i == 2) nil - 1; }
T364 ==
    [family |-> "for_forever",
     source |->
        <<"f", "o", "r", " ", "(", "v", "a", "r", " ", "i", " ", "=", " ", "0", ";",
        ";", " ", "i", " ", "=", " ", "i", " ", "+", " ", "1", ")", " ", "{", " ", "p",
        "r", "i", "n", "t", " ", "i", ";", " ", "i", "f", " ", "(", "i", " ", "=", "=",
        " ", "2", ")", " ", "n", "i", "l", " ", "-", " ", "1", ";", " ", "}">>,
     want_out |-> <<<<"0">>, <<"1">>, <<"2">>>>]

\* var i = 0; for (;;) { print i; i = i + 1; if (i == 2) nil - 1; }
T365 ==
    [family |-> "for_forever",
     source |->
        <<"v", "a", "r", " ", "i", " ", "=", " ", "0", ";", " ", "f", "o", "r", " ",
        "(", ";", ";", ")", " ", "{", " ", "p", "r", "i", "n", "t", " ", "i", ";", " ",
        "i", " ", "=", " ", "i", " ", "+", " ", "1", ";", " ", "i", "f", " ", "(", "i",
        " ", "=", "=", " ", "2", ")", " ", "n", "i", "l", " ", "-", " ", "1", ";", " ",
        "}">>,
     want_out |-> <<<<"0">>, <<"1">>>>]

\* 1 + + 2 print 3;
T366 ==
    [family |-> "sync",
     source |->
        <<"1", " ", "+", " ", "+", " ", "2", " ", "p", "r", "i", "n", "t", " ", "3",
        ";">>]

\* ( 1 print 2;
T367 ==
    [family |-> "sync",
     source |->
        <<"(", " ", "1", " ", "p", "r", "i", "n", "t", " ", "2", ";">>]

\* print 1 var x = 2; print x;
T368 ==
    [family |-> "sync",
     source |->
        <<"p", "r", "i", "n", "t", " ", "1", " ", "v", "a", "r", " ", "x", " ", "=",
        " ", "2", ";", " ", "p", "r", "i", "n", "t", " ", "x", ";">>]

\* 1 + + 2
T369 ==
    [family |-> "sync",
     source |->
        <<"1", " ", "+", " ", "+", " ", "2">>]

\* +
T370 ==
    [family |-> "sync",
     source |->
        <<"+">>]

\* x = ; ; ; print 1;
T371 ==
    [family |-> "sync",
     source |->
        <<"x", " ", "=", " ", ";", " ", ";", " ", ";", " ", "p", "r", "i", "n", "t",
        " ", "1", ";">>]

\* { 1 + ; print 2; } print 3;
T372 ==
    [family |-> "sync",
     source |->
        <<"{", " ", "1", " ", "+", " ", ";", " ", "p", "r", "i", "n", "t", " ", "2",
        ";", " ", "}", " ", "p", "r", "i", "n", "t", " ", "3", ";">>]

\* 1 2 3 while (a) b;
T373 ==
    [family |-> "sync",
     source |->
        <<"1", " ", "2", " ", "3", " ", "w", "h", "i", "l", "e", " ", "(", "a", ")",
        " ", "b", ";">>]

\* ( ( if (a) b; else c;
T374 ==
    [family |-> "sync",
     source |->
        <<"(", " ", "(", " ", "i", "f", " ", "(", "a", ")", " ", "b", ";", " ", "e",
        "l", "s", "e", " ", "c", ";">>]

\* a b fun f() {} f();
T375 ==
    [family |-> "sync",
     source |->
        <<"a", " ", "b", " ", "f", "u", "n", " ", "f", "(", ")", " ", "{", "}", " ",
        "f", "(", ")", ";">>]

\* 1 + for (;;) a;
T376 ==
    [family |-> "sync",
     source |->
        <<"1", " ", "+", " ", "f", "o", "r", " ", "(", ";", ";", ")", " ", "a", ";">>]

\* var x = 1 var y = 2; var z;
T377 ==
    [family |-> "sync",
     source |->
        <<"v", "a", "r", " ", "x", " ", "=", " ", "1", " ", "v", "a", "r", " ", "y",
        " ", "=", " ", "2", ";", " ", "v", "a", "r", " ", "z", ";">>]

\* a a a a a a print 1;
T378 ==
    [family |-> "sync",
     source |->
        <<"a", " ", "a", " ", "a", " ", "a", " ", "a", " ", "a", " ", "p", "r", "i",
        "n", "t", " ", "1", ";">>]

\* print 1
T379 ==
    [family |-> "sync",
     source |->
        <<"p", "r", "i", "n", "t", " ", "1">>]

\* 1 +
T380 ==
    [family |-> "sync",
     source |->
        <<"1", " ", "+">>]

\* f(
T381 ==
    [family |-> "sync",
     source |->
        <<"f", "(">>]

\* f(1,
T382 ==
    [family |-> "sync",
     source |->
        <<"f", "(", "1", ",">>]

\* (
T383 ==
    [family |-> "sync",
     source |->
        <<"(">>]

\* (1
T384 ==
    [family |-> "sync",
     source |->
        <<"(", "1">>]

\* {
T385 ==
    [family |-> "sync",
     source |->
        <<"{">>]

\* { print 1;
T386 ==
    [family |-> "sync",
     source |->
        <<"{", " ", "p", "r", "i", "n", "t", " ", "1", ";">>]

\* fun
T387 ==
    [family |-> "sync",
     source |->
        <<"f", "u", "n">>]

\* fun f(
T388 ==
    [family |-> "sync",
     source |->
        <<"f", "u", "n", " ", "f", "(">>]

\* fun f(a
T389 ==
    [family |-> "sync",
     source |->
        <<"f", "u", "n", " ", "f", "(", "a">>]

\* fun f() {
T390 ==
    [family |-> "sync",
     source |->
        <<"f", "u", "n", " ", "f", "(", ")", " ", "{">>]

\* for (;
T391 ==
    [family |-> "sync",
     source |->
        <<"f", "o", "r", " ", "(", ";">>]

\* for (
T392 ==
    [family |-> "sync",
     source |->
        <<"f", "o", "r", " ", "(">>]

\* if (a) b; else
T393 ==
    [family |-> "sync",
     source |->
        <<"i", "f", " ", "(", "a", ")", " ", "b", ";", " ", "e", "l", "s", "e">>]

\* while (
T394 ==
    [family |-> "sync",
     source |->
        <<"w", "h", "i", "l", "e", " ", "(">>]

\* var
T395 ==
    [family |-> "sync",
     source |->
        <<"v", "a", "r">>]

\* var x =
T396 ==
    [family |-> "sync",
     source |->
        <<"v", "a", "r", " ", "x", " ", "=">>]

\* a = b =
T397 ==
    [family |-> "sync",
     source |->
        <<"a", " ", "=", " ", "b", " ", "=">>]

\* var x = ;
T398 ==
    [family |-> "clause",
     source |->
        <<"v", "a", "r", " ", "x", " ", "=", " ", ";">>,
     errors |-> 1,
     declarations |-> 1]

\* var x = 1 + ;
T399 ==
    [family |-> "clause",
     source |->
        <<"v", "a", "r", " ", "x", " ", "=", " ", "1", " ", "+", " ", ";">>,
     errors |-> 1,
     declarations |-> 1]

\* for (; 1 + ;) print 1;
T400 ==
    [family |-> "clause",
     source |->
        <<"f", "o", "r", " ", "(", ";", " ", "1", " ", "+", " ", ";", ")", " ", "p",
        "r", "i", "n", "t", " ", "1", ";">>,
     errors |-> 1,
     declarations |-> 1]

\* for (var i = ; i < 1;) print i;
T401 ==
    [family |-> "clause",
     source |->
        <<"f", "o", "r", " ", "(", "v", "a", "r", " ", "i", " ", "=", " ", ";", " ",
        "i", " ", "<", " ", "1", ";", ")", " ", "p", "r", "i", "n", "t", " ", "i",
        ";">>,
     errors |-> 1,
     declarations |-> 1]

\* for (; ; ) ) print 1;
T402 ==
    [family |-> "clause",
     source |->
        <<"f", "o", "r", " ", "(", ";", " ", ";", " ", ")", " ", ")", " ", "p", "r",
        "i", "n", "t", " ", "1", ";">>,
     errors |-> 1,
     declarations |-> 1]

\* for (;; 1 +) print 1;
T403 ==
    [family |-> "clause",
     source |->
        <<"f", "o", "r", " ", "(", ";", ";", " ", "1", " ", "+", ")", " ", "p", "r",
        "i", "n", "t", " ", "1", ";">>,
     errors |-> 1,
     declarations |-> 1]

\* for (var i = 0 i < 1;) print 1;
T404 ==
    [family |-> "clause",
     source |->
        <<"f", "o", "r", " ", "(", "v", "a", "r", " ", "i", " ", "=", " ", "0", " ",
        "i", " ", "<", " ", "1", ";", ")", " ", "p", "r", "i", "n", "t", " ", "1",
        ";">>,
     errors |-> 1,
     declarations |-> 1]

\* for (; 1 + ; 2 + ) print 1;
T405 ==
    [family |-> "clause",
     source |->
        <<"f", "o", "r", " ", "(", ";", " ", "1", " ", "+", " ", ";", " ", "2", " ",
        "+", " ", ")", " ", "p", "r", "i", "n", "t", " ", "1", ";">>,
     errors |-> 2,
     declarations |-> 1]

\* print (1;
T406 ==
    [family |-> "clause",
     source |->
        <<"p", "r", "i", "n", "t", " ", "(", "1", ";">>,
     errors |-> 1,
     declarations |-> 0]

\* f(1,);
T407 ==
    [family |-> "clause",
     source |->
        <<"f", "(", "1", ",", ")", ";">>,
     errors |-> 1,
     declarations |-> 0]

\* { var x = ; }
T408 ==
    [family |-> "clause",
     source |->
        <<"{", " ", "v", "a", "r", " ", "x", " ", "=", " ", ";", " ", "}">>,
     errors |-> 1,
     declarations |-> 1]

\* print (1) + 2;
T409 ==
    [family |-> "span",
     source |->
        <<"p", "r", "i", "n", "t", " ", "(", "1", ")", " ", "+", " ", "2", ";">>,
     stops |-> "run"]

\* print 1 - -2;
T410 ==
    [family |-> "span",
     source |->
        <<"p", "r", "i", "n", "t", " ", "1", " ", "-", " ", "-", "2", ";">>,
     stops |-> "run"]

\* print -1 - 2;
T411 ==
    [family |-> "span",
     source |->
        <<"p", "r", "i", "n", "t", " ", "-", "1", " ", "-", " ", "2", ";">>,
     stops |-> "run"]

\* print 1 < (2 or 3);
T412 ==
    [family |-> "span",
     source |->
        <<"p", "r", "i", "n", "t", " ", "1", " ", "<", " ", "(", "2", " ", "o", "r",
        " ", "3", ")", ";">>,
     stops |-> "run"]

\* print (true and 1) + 1;
T413 ==
    [family |-> "span",
     source |->
        <<"p", "r", "i", "n", "t", " ", "(", "t", "r", "u", "e", " ", "a", "n", "d",
        " ", "1", ")", " ", "+", " ", "1", ";">>,
     stops |-> "run"]

\* print !true == 1;
T414 ==
    [family |-> "span",
     source |->
        <<"p", "r", "i", "n", "t", " ", "!", "t", "r", "u", "e", " ", "=", "=", " ",
        "1", ";">>,
     stops |-> "run"]

\* fun f() {} (f)();
T415 ==
    [family |-> "span",
     source |->
        <<"f", "u", "n", " ", "f", "(", ")", " ", "{", "}", " ", "(", "f", ")", "(",
        ")", ";">>,
     stops |-> "run"]

\* fun f() {} print 1 + (f)();
T416 ==
    [family |-> "span",
     source |->
        <<"f", "u", "n", " ", "f", "(", ")", " ", "{", "}", " ", "p", "r", "i", "n",
        "t", " ", "1", " ", "+", " ", "(", "f", ")", "(", ")", ";">>,
     stops |-> "run"]

\* (a) = 1;
T417 ==
    [family |-> "span",
     source |->
        <<"(", "a", ")", " ", "=", " ", "1", ";">>,
     stops |-> "parse"]

\* -a = 1;
T418 ==
    [family |-> "span",
     source |->
        <<"-", "a", " ", "=", " ", "1", ";">>,
     stops |-> "parse"]

\* a or b = 1;
T419 ==
    [family |-> "span",
     source |->
        <<"a", " ", "o", "r", " ", "b", " ", "=", " ", "1", ";">>,
     stops |-> "parse"]

\* 1 + (2) = 3;
T420 ==
    [family |-> "span",
     source |->
        <<"1", " ", "+", " ", "(", "2", ")", " ", "=", " ", "3", ";">>,
     stops |-> "parse"]

\* print 1 + 2 * 3;
T421 ==
    [family |-> "span",
     source |->
        <<"p", "r", "i", "n", "t", " ", "1", " ", "+", " ", "2", " ", "*", " ", "3",
        ";">>,
     stops |-> "no"]

\* var a = 1; print a + 1 < 3;
T422 ==
    [family |-> "span",
     source |->
        <<"v", "a", "r", " ", "a", " ", "=", " ", "1", ";", " ", "p", "r", "i", "n",
        "t", " ", "a", " ", "+", " ", "1", " ", "<", " ", "3", ";">>,
     stops |-> "no"]

\* fun f(a) { print a; } f(1 + 2);
T423 ==
    [family |-> "span",
     source |->
        <<"f", "u", "n", " ", "f", "(", "a", ")", " ", "{", " ", "p", "r", "i", "n",
        "t", " ", "a", ";", " ", "}", " ", "f", "(", "1", " ", "+", " ", "2", ")",
        ";">>,
     stops |-> "no"]

\* print (1);
T424 ==
    [family |-> "span",
     source |->
        <<"p", "r", "i", "n", "t", " ", "(", "1", ")", ";">>,
     stops |-> "no"]

\* print -1;
T425 ==
    [family |-> "span",
     source |->
        <<"p", "r", "i", "n", "t", " ", "-", "1", ";">>,
     stops |-> "no"]

\* print 1 or 2;
T426 ==
    [family |-> "span",
     source |->
        <<"p", "r", "i", "n", "t", " ", "1", " ", "o", "r", " ", "2", ";">>,
     stops |-> "no"]

\* 1 + 2 = 3;
T427 ==
    [family |-> "span",
     source |->
        <<"1", " ", "+", " ", "2", " ", "=", " ", "3", ";">>,
     stops |-> "no"]

\* var a; a = 1 + 2;
T428 ==
    [family |-> "span_covers",
     source |->
        <<"v", "a", "r", " ", "a", ";", " ", "a", " ", "=", " ", "1", " ", "+", " ",
        "2", ";">>]

\* 1 * 2 - 3;
T429 ==
    [family |-> "span_covers",
     source |->
        <<"1", " ", "*", " ", "2", " ", "-", " ", "3", ";">>]

\* 1 + 2;
T430 ==
    [family |-> "span_covers",
     source |->
        <<"1", " ", "+", " ", "2", ";">>]

\* var a = 1; a = a = 2;
T431 ==
    [family |-> "span_covers",
     source |->
        <<"v", "a", "r", " ", "a", " ", "=", " ", "1", ";", " ", "a", " ", "=", " ",
        "a", " ", "=", " ", "2", ";">>]

\* a @ // c / "\n<= # / 2 "x // y
T432 ==
    [family |-> "accounts",
     source |->
        <<"a", " ", "@", " ", "/", "/", " ", "c", " ", "/", " ", "\"", "\n", "<", "=",
        " ", "#", " ", "/", " ", "2", " ", "\"", "x", " ", "/", "/", " ", "y">>]

\* !=!<=<>=>==
T433 ==
    [family |-> "accounts",
     source |->
        <<"!", "=", "!", "<", "=", "<", ">", "=", ">", "=", "=">>]

\* a//b\n/ /c
T434 ==
    [family |-> "accounts",
     source |->
        <<"a", "/", "/", "b", "\n", "/", " ", "/", "c">>]

\* /
T435 ==
    [family |-> "accounts",
     source |->
        <<"/">>]

\* //
T436 ==
    [family |-> "accounts",
     source |->
        <<"/", "/">>]

\* / /
T437 ==
    [family |-> "accounts",
     source |->
        <<"/", " ", "/">>]

\* 1 2//\n\n// "\n"s"
T438 ==
    [family |-> "accounts",
     source |->
        <<"1", " ", "2", "/", "/", "\n", "\n", "/", "/", " ", "\"", "\n", "\"", "s",
        "\"">>]

\* @#~
T439 ==
    [family |-> "accounts",
     source |->
        <<"@", "#", "~">>]

\* a_b
T440 ==
    [family |-> "accounts",
     source |->
        <<"a", "_", "b">>]

\* \t1\r\n
T441 ==
    [family |-> "accounts",
     source |->
        <<"\t", "1", "\r", "\n">>]

\* "a // b" // "c
T442 ==
    [family |-> "accounts",
     source |->
        <<"\"", "a", " ", "/", "/", " ", "b", "\"", " ", "/", "/", " ", "\"", "c">>]

\* x=1;//@\n@
T443 ==
    [family |-> "accounts",
     source |->
        <<"x", "=", "1", ";", "/", "/", "@", "\n", "@">>]

\* \u00e9 // \u20ac\n\u20ac
T444 ==
    [family |-> "accounts",
     source |->
        <<"C3", "A9", " ", "/", "/", " ", "E2", "82", "AC", "\n", "E2", "82", "AC">>]

\* print !-a + b - c * d / e == f != g < h <= i > j >= k and l or m;
T445 ==
    [family |-> "operators",
     source |->
        <<"p", "r", "i", "n", "t", " ", "!", "-", "a", " ", "+", " ", "b", " ", "-",
        " ", "c", " ", "*", " ", "d", " ", "/", " ", "e", " ", "=", "=", " ", "f", " ",
        "!", "=", " ", "g", " ", "<", " ", "h", " ", "<", "=", " ", "i", " ", ">", " ",
        "j", " ", ">", "=", " ", "k", " ", "a", "n", "d", " ", "l", " ", "o", "r", " ",
        "m", ";">>]

\* fun f(a) { if (!a) { while (a < 1) a = a + 1; } else print -a; } f(1 or 2);
T446 ==
    [family |-> "operators",
     source |->
        <<"f", "u", "n", " ", "f", "(", "a", ")", " ", "{", " ", "i", "f", " ", "(",
        "!", "a", ")", " ", "{", " ", "w", "h", "i", "l", "e", " ", "(", "a", " ", "<",
        " ", "1", ")", " ", "a", " ", "=", " ", "a", " ", "+", " ", "1", ";", " ", "}",
        " ", "e", "l", "s", "e", " ", "p", "r", "i", "n", "t", " ", "-", "a", ";", " ",
        "}", " ", "f", "(", "1", " ", "o", "r", " ", "2", ")", ";">>]

\* for (var i = 0; i <= 1 and !false; i = i * 2) { var x = (i - 1) / 2 >= 0; }
T447 ==
    [family |-> "operators",
     source |->
        <<"f", "o", "r", " ", "(", "v", "a", "r", " ", "i", " ", "=", " ", "0", ";",
        " ", "i", " ", "<", "=", " ", "1", " ", "a", "n", "d", " ", "!", "f", "a", "l",
        "s", "e", ";", " ", "i", " ", "=", " ", "i", " ", "*", " ", "2", ")", " ", "{",
        " ", "v", "a", "r", " ", "x", " ", "=", " ", "(", "i", " ", "-", " ", "1", ")",
        " ", "/", " ", "2", " ", ">", "=", " ", "0", ";", " ", "}">>]

\* print + 1;
T448 ==
    [family |-> "operators",
     source |->
        <<"p", "r", "i", "n", "t", " ", "+", " ", "1", ";">>]

\* print 1 - + 2;
T449 ==
    [family |-> "operators",
     source |->
        <<"p", "r", "i", "n", "t", " ", "1", " ", "-", " ", "+", " ", "2", ";">>]

\* print * 1;
T450 ==
    [family |-> "operators",
     source |->
        <<"p", "r", "i", "n", "t", " ", "*", " ", "1", ";">>]

\* print 1 = 2;
T451 ==
    [family |-> "operators",
     source |->
        <<"p", "r", "i", "n", "t", " ", "1", " ", "=", " ", "2", ";">>]

\* print a.b;
T452 ==
    [family |-> "operators",
     source |->
        <<"p", "r", "i", "n", "t", " ", "a", ".", "b", ";">>]

\* print this;
T453 ==
    [family |-> "operators",
     source |->
        <<"p", "r", "i", "n", "t", " ", "t", "h", "i", "s", ";">>]

\* print super.x;
T454 ==
    [family |-> "operators",
     source |->
        <<"p", "r", "i", "n", "t", " ", "s", "u", "p", "e", "r", ".", "x", ";">>]

\* class A {}
T455 ==
    [family |-> "operators",
     source |->
        <<"c", "l", "a", "s", "s", " ", "A", " ", "{", "}">>]

\* print 1 ! 2;
T456 ==
    [family |-> "operators",
     source |->
        <<"p", "r", "i", "n", "t", " ", "1", " ", "!", " ", "2", ";">>]

\* a.b = 1;
T457 ==
    [family |-> "operators",
     source |->
        <<"a", ".", "b", " ", "=", " ", "1", ";">>]

TextList ==
    <<T001, T002, T003, T004, T005, T006, T007, T008, T009, T010, T011, T012, T013,
    T014, T015, T016, T017, T018, T019, T020, T021, T022, T023, T024, T025, T026, T027,
    T028, T029, T030, T031, T032, T033, T034, T035, T036, T037, T038, T039, T040, T041,
    T042, T043, T044, T045, T046, T047, T048, T049, T050, T051, T052, T053, T054, T055,
    T056, T057, T058, T059, T060, T061, T062, T063, T064, T065, T066, T067, T068, T069,
    T070, T071, T072, T073, T074, T075, T076, T077, T078, T079, T080, T081, T082, T083,
    T084, T085, T086, T087, T088, T089, T090, T091, T092, T093, T094, T095, T096, T097,
    T098, T099, T100, T101, T102, T103, T104, T105, T106, T107, T108, T109, T110, T111,
    T112, T113, T114, T115, T116, T117, T118, T119, T120, T121, T122, T123, T124, T125,
    T126, T127, T128, T129, T130, T131, T132, T133, T134, T135, T136, T137, T138, T139,
    T140, T141, T142, T143, T144, T145, T146, T147, T148, T149, T150, T151, T152, T153,
    T154, T155, T156, T157, T158, T159, T160, T161, T162, T163, T164, T165, T166, T167,
    T168, T169, T170, T171, T172, T173, T174, T175, T176, T177, T178, T179, T180, T181,
    T182, T183, T184, T185, T186, T187, T188, T189, T190, T191, T192, T193, T194, T195,
    T196, T197, T198, T199, T200, T201, T202, T203, T204, T205, T206, T207, T208, T209,
    T210, T211, T212, T213, T214, T215, T216, T217, T218, T219, T220, T221, T222, T223,
    T224, T225, T226, T227, T228, T229, T230, T231, T232, T233, T234, T235, T236, T237,
    T238, T239, T240, T241, T242, T243, T244, T245, T246, T247, T248, T249, T250, T251,
    T252, T253, T254, T255, T256, T257, T258, T259, T260, T261, T262, T263, T264, T265,
    T266, T267, T268, T269, T270, T271, T272, T273, T274, T275, T276, T277, T278, T279,
    T280, T281, T282, T283, T284, T285, T286, T287, T288, T289, T290, T291, T292, T293,
    T294, T295, T296, T297, T298, T299, T300, T301, T302, T303, T304, T305, T306, T307,
    T308, T309, T310, T311, T312, T313, T314, T315, T316, T317, T318, T319, T320, T321,
    T322, T323, T324, T325, T326, T327, T328, T329, T330, T331, T332, T333, T334, T335,
    T336, T337, T338, T339, T340, T341, T342, T343, T344, T345, T346, T347, T348, T349,
    T350, T351, T352, T353, T354, T355, T356, T357, T358, T359, T360, T361, T362, T363,
    T364, T365, T366, T367, T368, T369, T370, T371, T372, T373, T374, T375, T376, T377,
    T378, T379, T380, T381, T382, T383, T384, T385, T386, T387, T388, T389, T390, T391,
    T392, T393, T394, T395, T396, T397, T398, T399, T400, T401, T402, T403, T404, T405,
    T406, T407, T408, T409, T410, T411, T412, T413, T414, T415, T416, T417, T418, T419,
    T420, T421, T422, T423, T424, T425, T426, T427, T428, T429, T430, T431, T432, T433,
    T434, T435, T436, T437, T438, T439, T440, T441, T442, T443, T444, T445, T446, T447,
    T448, T449, T450, T451, T452, T453, T454, T455, T456, T457>>

\* ---- end of input texts ----

(***************************************************************************)
(* The state machine.  As main.rs does, a source text is lexed token by    *)
(* token and, when it lexed without an error, parsed declaration by        *)
(* declaration.  An Interpreter is constructed, and interpret is called on *)
(* it with what the parser returned when there was no error, or with one   *)
(* program after the other, as the REPL does; each call is followed node   *)
(* by node.                                                                *)
(***************************************************************************)
Programs == 1..Len(ProgramList)
Probes == {p \in Programs : ProgramList[p].family = "probe"}
FirstPrograms == Programs \ Probes
Texts == 1..Len(TextList)

\* the text being processed, when there is one
Text == TextList[file]

\* program 0 is the text: its data, with the declarations Parser::parse returned
ProgramAt(p) ==
    IF p = 0
    THEN [field \in DOMAIN Text \cup {"declarations"} |->
              IF field = "declarations" THEN parser.declarations ELSE Text[field]]
    ELSE ProgramList[p]

Program == ProgramAt(history[Len(history)])
Family == IF history = <<>> THEN "none" ELSE Program.family
Finished == result.kind \in {"Ok", "Err"}
Running == result.kind = "Running"

\* Interpreter::new; nothing is lexed or parsed yet
Init ==
    /\ history = <<>>
    /\ base = [environment_stack |-> <<Environment_new>>, out |-> <<>>]
    /\ steps = 0
    /\ environment_stack = <<Environment_new>>
    /\ out = <<>>
    /\ result = [kind |-> "New", error |-> NoError]
    /\ file = 0
    /\ lexer = [Lexer_new(<<>>) EXCEPT !.next_result = "Idle"]
    /\ parser = [Parser_new(<<>>) EXCEPT !.status = "Idle"]

\* Lexer::lex is entered with the contents of the file
Lex(t) ==
    /\ file = 0
    /\ history = <<>>
    /\ parser.status = "Idle"
    /\ file' = t
    /\ lexer' = Lexer_new(TextList[t].source)
    /\ UNCHANGED <<history, base, steps, environment_stack, out, result, parser>>

\* one call of next in the loop of Lexer::lex
LexNext ==
    /\ lexer.next_result = "NotDone"
    /\ LET next == Lexer_next(lexer) IN
       lexer' = [next.lexer EXCEPT !.next_result = next.result]
    /\ UNCHANGED <<history, base, steps, environment_stack, out, result, file, parser>>

\* Parser::parse is entered with the tokens of a text that lexed without an
\* error
ParseStart ==
    /\ lexer.next_result = "Done"
    /\ lexer.errors = <<>>
    /\ parser.status = "Idle"
    /\ parser' = Parser_new(lexer.tokens)
    /\ UNCHANGED <<history, base, steps, environment_stack, out, result, file, lexer>>

\* the tokens of `f(a,a,...,a);` (a call) or `fun f(a,a,...,a){}` (a function
\* declaration) with n times a, as the Lexer gives them
ListTokens(function, n) ==
    LET head == IF function
                THEN <<Token_new(0, 3, "Fun"), Token_new(4, 5, "Identifier"),
                       Token_new(5, 6, "LeftParen")>>
                ELSE <<Token_new(0, 1, "Identifier"), Token_new(1, 2, "LeftParen")>>
        at == head[Len(head)].span.end
        list == [k \in 1..(IF n = 0 THEN 0 ELSE 2 * n - 1) |->
                    Token_new(at + k - 1, at + k,
                              IF k % 2 = 1 THEN "Identifier" ELSE "Comma")]
        end == at + Len(list)
        tail == IF function
                THEN <<Token_new(end, end + 1, "RightParen"),
                       Token_new(end + 1, end + 2, "LeftBrace"),
                       Token_new(end + 2, end + 3, "RightBrace"),
                       Token_new(end + 3, end + 4, "Eof")>>
                ELSE <<Token_new(end, end + 1, "RightParen"),
                       Token_new(end + 1, end + 2, "Semicolon"),
                       Token_new(end + 2, end + 3, "Eof")>> IN
    head \o list \o tail

\* Parser::parse is entered with the tokens of a call or of a function
\* declaration that lists n names
ParseTokens(function, n) ==
    /\ file = 0
    /\ history = <<>>
    /\ parser.status = "Idle"
    /\ parser' = Parser_new(ListTokens(function, n))
    /\ UNCHANGED <<history, base, steps, environment_stack, out, result, file, lexer>>

\* one turn of the while loop of Parser::parse
ParseNext ==
    /\ parser.status = "Running"
    /\ parser' = Parser_parse(parser)
    /\ UNCHANGED <<history, base, steps, environment_stack, out, result, file, lexer>>

\* interpret(source, declarations) is entered: with what was parsed from the
\* text when it parsed without an error (p = 0), else with a program
Interpret(p) ==
    /\ result.kind \in {"New", "Ok", "Err"}
    /\ Len(history) < MaxLines
    /\ IF p = 0
       THEN file # 0 /\ history = <<>> /\ parser.status = "Done" /\ parser.errors = <<>>
       ELSE file = 0 /\ parser.status = "Idle"
                     /\ p \in (IF history = <<>> THEN FirstPrograms ELSE Probes)
    /\ history' = Append(history, p)
    /\ base' = [environment_stack |-> environment_stack, out |-> out]
    /\ steps' = 0
    /\ result' = [kind |-> "Running", error |-> NoError]
    /\ UNCHANGED <<environment_stack, out, file, lexer, parser>>

\* the evaluator enters its next AST node and runs on to the node after it
Step ==
    /\ Running
    /\ steps < MaxSteps
    /\ LET r == interpret(base, Program.source, Program.declarations, steps + 1) IN
        /\ environment_stack' = r.environment_stack
        /\ out' = r.out
        /\ result' = r.result
    /\ steps' = steps + 1
    /\ UNCHANGED <<history, base, file, lexer, parser>>

Next ==
    \/ \E t \in Texts : Lex(t)
    \/ LexNext
    \/ ParseStart
    \/ \E function \in BOOLEAN, n \in 0..MaxList :
           (n <= 2 \/ n >= MaxArguments - 1) /\ ParseTokens(function, n)
    \/ ParseNext
    \/ \E p \in Programs \cup {0} : Interpret(p)
    \/ Step

Spec == Init /\ [][Next]_vars

(***************************************************************************)
(* Properties.  First is the program of the first interpret call; Ended    *)
(* says a call is over (returned, or the process died).                    *)
(***************************************************************************)
InText(family) == file # 0 /\ TextList[file].family = family
Parsed == parser.status = "Done"
First == ProgramAt(history[1])
InFirst(family) == Len(history) = 1 /\ First.family = family
Ended == result.kind \notin {"New", "Running"}
Depth == Len(environment_stack)
Defined(i, name) == name \in DOMAIN environment_stack[i].values
Binding(i, name) == environment_stack[i].values[name]
HasLine(text) == \E i \in 1..Len(out) : out[i] = text
Dead == <<"D">>
ErrorName(error, source) == Span_slice(error.token.span, source)

\* C1: a function body resolves its free variables through the scopes of its
\* declaration site only.  A variable that exists only in a block or function
\* scope of the caller is unknown in the callee (VariableDoesntExist, nothing
\* printed), and a caller-local variable shadowing a global does not change
\* what the callee reads (the global's value is printed).
C1_LexicalScoping ==
    /\ (InFirst("caller_local") /\ Ended) =>
            /\ result.kind = "Err"
            /\ result.error.error = "VariableDoesntExist"
            /\ ErrorName(result.error, First.source) = First.name
            /\ out = <<>>
    /\ (InFirst("caller_shadow") /\ Ended) =>
            /\ result.kind = "Ok"
            /\ out = First.want_out

\* C2: a function returned by its enclosing function still reads and assigns
\* the enclosing function's local variable: the counter closure prints 1 then
\* 2, and never fails with VariableDoesntExist.
C2_ClosureKeepsVariable ==
    (InFirst("closure") /\ Ended) =>
        /\ result.kind = "Ok"
        /\ out = First.want_out

\* C3: `var` binds in the innermost scope only.  While a block that redeclares
\* x runs, the outer binding of x keeps its value and the inner scope holds
\* the inner value; the inner print shows the inner value and the print after
\* the block the outer one; redeclaring a name in its own scope is no error.
C3_VarBindsInnermost ==
    /\ InFirst("shadow") =>
            /\ \A i \in 1..Depth :
                   Defined(i, <<"x">>) =>
                       pretty_print(Binding(i, <<"x">>)) =
                           (IF i <= First.outer_depth THEN First.outer ELSE First.inner)
            /\ \A i \in 1..Depth : i < First.outer_depth => ~Defined(i, <<"x">>)
            /\ Ended => (result.kind = "Ok" /\ out = First.want_out)
    /\ (InFirst("redeclare") /\ Ended) => (result.kind = "Ok" /\ out = First.want_out)

C3_Witness ==
    /\ InFirst("shadow")
    /\ result.kind = "Ok"
    /\ Len(out) = 2
    /\ out[1] # out[2]

\* the innermost scope of the stack that defines name
InnermostDefining(stack, name) ==
    CHOOSE k \in 1..Len(stack) :
        /\ name \in DOMAIN stack[k].values
        /\ \A j \in (k + 1)..Len(stack) : name \notin DOMAIN stack[j].values

AssignNames == {<<"x">>, <<"y">>, <<"z">>, <<"q">>}
AssignValues == {Value_Nil(Span_new(0, 0)), Value_Number(Span_new(0, 1), 9)}

\* C4: an assignment overwrites the binding of the innermost scope that
\* defines the name and changes nothing else; when no scope defines the name
\* it fails with VariableDoesntExist and creates no binding in any scope.
\* The first conjunct applies assign to every scope stack a run goes through.
C4_AssignExistingOnly ==
    /\ \A name \in AssignNames, value \in AssignValues :
           LET r == Interpreter_assign(environment_stack, name, value) IN
           IF \E i \in 1..Depth : Defined(i, name)
           THEN /\ r.ok
                /\ r.stack = [environment_stack EXCEPT
                                 ![InnermostDefining(environment_stack, name)].values[name]
                                     = value]
           ELSE /\ ~r.ok
                /\ r.stack = environment_stack
    /\ (history # <<>> /\ First.family = "assign_undeclared") =>
            /\ \A i \in 1..Depth : ~Defined(i, First.name)
            /\ (InFirst("assign_undeclared") /\ Ended) =>
                   /\ result.kind = "Err"
                   /\ result.error.error = "VariableDoesntExist"
                   /\ ErrorName(result.error, First.source) = First.name
    /\ (InFirst("assign_declared") /\ Ended) =>
            (result.kind = "Ok" /\ out = First.want_out)

C4_Witness ==
    /\ InFirst("assign_undeclared")
    /\ result.kind = "Err"
    /\ result.error.error = "VariableDoesntExist"
    /\ Defined(1, <<"y">>)

\* C5: a call with m arguments of a function of n # m parameters fails with
\* Arity{expected: n, got: m}; the body does not run and no argument is
\* evaluated: nothing is printed and x, which the body and every argument
\* assign, keeps its value 0.
C5_ArityBeforeArguments ==
    InFirst("arity") =>
        /\ out = <<>>
        /\ Defined(1, <<"x">>) => Binding(1, <<"x">>).number = 0
        /\ Ended =>
               /\ result.kind = "Err"
               /\ result.error.error = "Arity"
               /\ result.error.expected = First.expected
               /\ result.error.got = First.got

C5_Witness ==
    /\ InFirst("arity")
    /\ result.kind = "Err"
    /\ result.error.error = "Arity"
    /\ result.error.got > result.error.expected
    /\ result.error.expected > 0

\* C6: a call yields the value of the first Return its body executes, and Nil
\* when the body ends without one; nothing of the body runs after the Return
\* (no "D" line is ever printed), wherever the Return is nested, and the
\* caller's statements after the call still run.
C6_ReturnEndsTheCall ==
    InFirst("return") =>
        /\ ~HasLine(Dead)
        /\ Ended => (result.kind = "Ok" /\ out = First.want_out)

C6_Witness ==
    /\ InFirst("return")
    /\ result.kind = "Ok"
    /\ out = <<<<"5">>, <<"7">>>>

\* C7: the first runtime error ends the run: interpret returns exactly that
\* error, and nothing after the failing point runs (no "D" line is printed,
\* z is never defined), whatever block, loop or call the error occurred in.
C7_FirstErrorEndsRun ==
    InFirst("error") =>
        /\ ~HasLine(Dead)
        /\ \A i \in 1..Depth : ~Defined(i, <<"z">>)
        /\ Ended =>
               /\ result.kind = "Err"
               /\ result.error.error = First.want_error
               /\ out = First.want_out

C7_Witness ==
    /\ InFirst("error")
    /\ result.kind = "Err"
    /\ result.error.error = "Type"
    /\ Len(out) = 2

\* C8: a Return executed outside any call makes interpret return Ok, never
\* an error; the program ends there: what follows does not run, the
\* bindings made before it stay, and the scopes opened around it are closed.
C8_TopLevelReturnIsOk ==
    InFirst("toplevel_return") =>
        /\ ~HasLine(Dead)
        /\ \A i \in 1..Depth : ~Defined(i, <<"z">>)
        /\ Ended =>
               /\ result.kind = "Ok"
               /\ out = First.want_out
               /\ Depth = 1

C8_Witness ==
    /\ InFirst("toplevel_return")
    /\ result.kind = "Ok"
    /\ out = <<<<"1">>>>
    /\ steps > 4

IsTypeError(expected, got) ==
    /\ result.kind = "Err"
    /\ result.error.error = "Type"
    /\ result.error.expected = expected
    /\ result.error.got = got

C10_NumberOnlyTypeError ==
    (InFirst("number_only") /\ Ended) =>
        /\ IsTypeError("Number", First.operand_type)
        /\ result.error.source_token_span = First.operand_span

\* C11: `a or b` yields the value of a, and does not evaluate b, when a is
\* truthy; `a and b` yields the value of a, and does not evaluate b, when a
\* is Nil or false; otherwise b is evaluated once, after a, and its value is
\* the result.  A skipped b assigns nothing (x never takes a value only the
\* skipped, repeated or reordered operand would give it) and raises no error.
C11_LogicalShortCircuit ==
    InFirst("logical") =>
        /\ \A i \in 1..Depth :
               (Defined(i, <<"x">>) /\ Binding(i, <<"x">>).type = "Number") =>
                   Binding(i, <<"x">>).number \notin First.never
        /\ Ended => (result.kind = First.want_kind /\ out = First.want_out)

C11_Witness ==
    /\ InFirst("logical")
    /\ result.kind = "Ok"
    /\ out = <<<<"1">>, <<"0">>>>
    /\ First.never # {}

\* the steps the counting loop may take for a bound of n: the declarations
\* and clauses entered once, and the nodes of one turn
ForSteps(n) == 10 + 14 * n

\* C12: `for (var i = 0; i < N; i = i + 1) print i;` prints 0 .. N-1 in
\* order and then terminates, for every N >= 0: while it runs the output is
\* a prefix of 0 .. N-1 and the run is within a number of steps linear in N;
\* when it is over it returned Ok, the output and the bindings are those of
\* the hand-written { var i = 0; while (i < N) { print i; i = i + 1; } },
\* and i is not defined.
C12_ForLoopCounts ==
    InFirst("for_count") =>
        /\ Len(out) <= Len(First.want_out)
        /\ out = SubSeq(First.want_out, 1, Len(out))
        /\ steps <= ForSteps(First.n)
        /\ ForSteps(First.n) < MaxSteps
        /\ Ended =>
               LET twin == interpret([environment_stack |-> <<Environment_new>>,
                                      out |-> <<>>],
                                     First.twin_source, First.twin, MaxSteps) IN
               /\ result.kind = "Ok"
               /\ out = First.want_out
               /\ twin.result = result
               /\ twin.out = out
               /\ twin.environment_stack = environment_stack
               /\ \A i \in 1..Depth : ~Defined(i, <<"i">>)

C12_Witness ==
    /\ InFirst("for_count")
    /\ result.kind = "Ok"
    /\ out = <<<<"0">>, <<"1">>, <<"2">>>>

\* the operator of an expression node, and its operand on a side
NodeOperator(e) ==
    CASE e.expr \in {"Binary", "Logical", "Unary"} -> e.operator.type_
      [] e.expr = "Assignment" -> "Equal"
      [] OTHER -> "None"
NodeOperand(e, side) ==
    CASE e.expr = "Assignment" -> e.value
      [] e.expr = "Unary" -> e.right
      [] OTHER -> IF side = "left" THEN e.left ELSE e.right

\* the expression of the first declaration parsed (an expression statement)
ParsedExpression == parser.declarations[1].statement.expression

\* C13: precedence, from tightest to loosest, is unary, factor, term,
\* comparison, equality, and, or, assignment.  A text that mixes an
\* operator of a looser level with one of a tighter level, in either order,
\* parses without an error into the looser operator's node with the tighter
\* operator's node as its operand on that side; `1 + 2 * 3` is
\* (+ 1 (* 2 3)) and evaluates to 7.
C13_Precedence ==
    /\ (InText("precedence") /\ Parsed) =>
           /\ parser.errors = <<>>
           /\ Len(parser.declarations) = 1
           /\ NodeOperator(ParsedExpression) = Text.root
           /\ NodeOperator(NodeOperand(ParsedExpression, Text.side)) = Text.child
    /\ (InFirst("precedence_value") /\ Ended) =>
           (result.kind = "Ok" /\ out = First.want_out)

C13_Witness ==
    /\ InFirst("precedence_value")
    /\ result.kind = "Ok"
    /\ out = <<<<"7">>>>
    /\ Len(parser.declarations) = 1
    /\ NodeOperator(ParsedExpression) = "Plus"
    /\ NodeOperator(ParsedExpression.right) = "Star"

\* C14: binary operators of one precedence level associate to the left: a
\* chain a op1 b op2 c parses without an error as ((a op1 b) op2 c), the
\* last operator at the root with a plain operand on its right, and so on
\* down the left; `1 - 2 - 3` evaluates to -4.  Operands are evaluated left
\* to right: what the left operand prints comes first, and of two undefined
\* operands the left one is reported.
C14_LeftAssociative ==
    /\ (InText("associativity") /\ Parsed) =>
           /\ parser.errors = <<>>
           /\ Len(parser.declarations) = 1
           /\ NodeOperator(ParsedExpression) = Text.root
           /\ NodeOperator(ParsedExpression.right) = "None"
           /\ NodeOperator(ParsedExpression.left) = Text.child
           /\ NodeOperator(ParsedExpression.left.right) = "None"
           /\ NodeOperator(ParsedExpression.left.left) = Text.inner
    /\ (InFirst("associativity_value") /\ Ended) =>
           (result.kind = First.want_kind /\ out = First.want_out)
    /\ InFirst("operand_order") =>
           /\ Len(out) <= Len(First.want_out)
           /\ out = SubSeq(First.want_out, 1, Len(out))
           /\ Ended => (result.kind = "Ok" /\ out = First.want_out)
    /\ (InFirst("operand_undefined") /\ Ended) =>
           /\ result.kind = "Err"
           /\ result.error.error = "VariableDoesntExist"
           /\ ErrorName(result.error, First.source) = First.name

C14_Witness ==
    /\ InFirst("associativity_value")
    /\ result.kind = "Ok"
    /\ out = <<<<"-", "4">>>>
    /\ NodeOperator(ParsedExpression.left) = "Minus"

\* C15: assignment is right-associative and its target must be a bare
\* variable.  `lhs = rhs` with a Variable lhs parses to Assignment(name,
\* rhs), and a = b = c to a = (b = c).  For any other lhs the parser
\* records exactly one InvalidAssignmentTarget with the span of lhs and
\* still returns the parsed lhs: the statement is parsed (it is the one
\* declaration of the text) and nothing is skipped.
C15_AssignmentTarget ==
    /\ (InText("assign_valid") /\ Parsed) =>
           /\ Len(parser.errors) = Text.errors
           /\ Len(parser.declarations) = 1
           /\ ParsedExpression.expr = "Assignment"
           /\ ParsedExpression.name.span = Text.name_span
           /\ ParsedExpression.value.expr = Text.value_expr
           /\ Text.value_expr = "Assignment" =>
                  ParsedExpression.value.name.span.start > Text.name_span.end
    /\ InText("assign_invalid") =>
           /\ parser.status # "Panic"
           /\ Parsed =>
                  /\ parser.errors = <<[error |-> "InvalidAssignmentTarget",
                                        target_span |-> Text.target_span]>>
                  /\ Len(parser.declarations) = 1
                  /\ ParsedExpression.expr = Text.lhs_expr
                  /\ current_token(parser, parser.tokens).type_ = "Eof"

\* the targets whose span Expression::span computes
C15_SpannedTargets ==
    (InText("assign_invalid") /\ Text.lhs_expr \in {"Literal", "Binary", "Call"}) =>
        /\ parser.status # "Panic"
        /\ Parsed =>
               /\ parser.errors = <<[error |-> "InvalidAssignmentTarget",
                                     target_span |-> Text.target_span]>>
               /\ Len(parser.declarations) = 1
               /\ ParsedExpression.expr = Text.lhs_expr
               /\ current_token(parser, parser.tokens).type_ = "Eof"

\* whether a parse error carries a span that lies within a span of the text
ErrorWithin(error, span) ==
    LET at == CASE error.error = "UnexpectedToken" -> error.span
                [] error.error = "InvalidAssignmentTarget" -> error.target_span
                [] error.error = "TwoManyArguments" -> error.callee_span
                [] OTHER -> Span_new(0, 0) IN
    /\ error.error # "UnexpectedEof"
    /\ span.start <= at.start
    /\ at.end <= span.end

\* what C16 says of the text being parsed: an error in each of its two
\* malformed statements, and each of its statements `print <number>;` among
\* the declarations
TwoErrorsReported ==
    /\ parser.status # "Panic"
    /\ Parsed =>
           /\ \E i \in 1..Len(parser.errors) : ErrorWithin(parser.errors[i], Text.first)
           /\ \E i \in 1..Len(parser.errors) : ErrorWithin(parser.errors[i], Text.second)
           /\ \A number \in Text.good :
                  \E i \in 1..Len(parser.declarations) :
                      parser.declarations[i] =
                          StatementDeclaration(PrintStatement(LiteralNumber(
                              [type_ |-> "Number", span |-> number])))

\* C16: when a text contains two independently malformed statements, each
\* ended by `;`, Parser::parse reports at least one error located in the
\* first and at least one located in the second, and the well-formed
\* statements between and after them are parsed into declarations.
C16_TwoErrorsReported ==
    (\/ InText("two_malformed")
     \/ InText("two_malformed_target")
     \/ InText("two_malformed_clause")) => TwoErrorsReported

\* the same, for statements that are not an assignment to a parenthesised,
\* negated or logical target, and not a for statement cut off in its clauses
C16_Recovers == InText("two_malformed") => TwoErrorsReported

\* a call or function declaration given as tokens has been parsed
ListParsed(function) ==
    /\ file = 0
    /\ Parsed
    /\ parser.tokens # <<>>
    /\ (parser.tokens[1].type_ = "Fun") = function

\* the names between the parentheses of the tokens parsed
Listed ==
    Cardinality({k \in 1..Len(parser.tokens) : parser.tokens[k].type_ = "Comma"})
        + (IF \E k \in 1..Len(parser.tokens) : parser.tokens[k].type_ = "Comma"
           THEN 1
           ELSE IF Len(parser.tokens) \in {6, 8} THEN 1 ELSE 0)

TooMany == \E i \in 1..Len(parser.errors) : parser.errors[i].error = "TwoManyArguments"

\* C17: the TooManyArguments error is triggered by more than 255 call
\* arguments: a call with at most 255 arguments records no TooManyArguments
\* error, and a call with 256 or more arguments records it.
C17_TooManyArguments ==
    ListParsed(FALSE) => (TooMany <=> Listed > MaxArguments)

\* the tokens handed to the parser are those the Lexer gives for the text
C17_ListTokensAsLexed ==
    InText("list") /\ lexer.next_result = "Done"
        => lexer.tokens = ListTokens(Text.function, Text.n)

\* what the code does for a call, and for the parameters of a function
C17_ArgumentsFrom255 ==
    /\ ListParsed(FALSE) => (TooMany <=> Listed >= MaxArguments)
    /\ ListParsed(TRUE) => (TooMany <=> Listed > MaxArguments)

\* one turn of the while loop of Parser::parse has been made
ParseTurn == parser.status = "Running" /\ parser' # parser

\* the turn ended the loop (or the parser panicked), or it left the cursor
\* further on, and within the tokens or just past them
CursorAdvances ==
    \/ parser'.status \in {"Done", "Panic"}
    \/ /\ parser'.status = "Running"
       /\ parser'.current_index > parser.current_index
       /\ parser'.current_index <= Len(parser'.tokens)
       /\ parser'.tokens = parser.tokens

\* C18: Parser::parse terminates on every finite token stream that ends with
\* Eof, well-formed or not: each turn of the top-level loop moves the cursor
\* forward by at least one token (through the declaration parsed, or through
\* synchronise after a failed one), and the cursor never passes the end of the
\* tokens by more than one, so the turns of a parse are at most as many as
\* its tokens.
C18_ParseTerminates == [][ParseTurn => CursorAdvances]_vars

\* a parse has ended at Eof after failed declarations, each followed by
\* synchronise, and declarations that were parsed
C18_Witness ==
    /\ Parsed
    /\ Len(parser.errors) >= 2
    /\ Len(parser.declarations) >= 1
    /\ parser.current_index = Len(parser.tokens) - 1
    /\ parser.tokens[Len(parser.tokens)].type_ = "Eof"

\* Lexer::lex has returned
Lexed == lexer.next_result = "Done"

\* source.chars().count()
CharCount(source) ==
    Cardinality({i \in 1..Len(source) : source[i] \notin ContinuationBytes})

\* C19: for every input text, with or without lexical errors, the token list
\* returned by Lexer::lex contains exactly one Eof token, and it is the last
\* token; its span starts at the number of characters lexed and ends one
\* further.
C19_OneEofLast ==
    Lexed =>
        LET tokens == lexer.tokens
            chars == CharCount(lexer.source) IN
        /\ tokens # <<>>
        /\ \A i \in 1..Len(tokens) : (tokens[i].type_ = "Eof") = (i = Len(tokens))
        /\ tokens[Len(tokens)].span = Span_new(chars, chars + 1)
        /\ lexer.current_position = chars

\* a text with non-ASCII characters and lexical errors has been lexed, and
\* tokens come before its Eof
C19_Witness ==
    /\ Lexed
    /\ InText("lexing")
    /\ ~Text.ascii
    /\ lexer.errors # <<>>
    /\ Len(lexer.tokens) >= 3

\* the characters a token was recognised from: those at the char positions
\* span.start up to span.end of the source, as bytes
Lexeme(source, span) ==
    SubSeq(source, chars_skip(source, 0, span.start) + 1,
           chars_skip(source, 0, span.end))

\* Span::slice succeeds on the span and gives the token's lexeme, and the span
\* lies within the source
SlicesToLexeme(source, span) ==
    /\ span.start <= span.end
    /\ span.end <= Len(source)
    /\ ~Span_slice_panics(span, source)
    /\ Span_slice(span, source) = Lexeme(source, span)

\* C20: for every source text, including texts with non-ASCII characters in
\* strings, in comments or as unexpected characters, and for every token the
\* lexer produces, Span::slice of the source with the token's span succeeds
\* and gives exactly the lexeme the token was recognised from, and
\* start <= end <= length of the source; the lexer's own slice succeeds too.
C20_SpansSlice ==
    /\ lexer.next_result # "Panic"
    /\ \A i \in 1..Len(lexer.tokens) :
          SlicesToLexeme(lexer.source, lexer.tokens[i].span)

\* what holds of the code: on ASCII text every token but Eof slices to its
\* lexeme, and the lexer does not panic
C20_AsciiSpansSlice ==
    (\A i \in 1..Len(lexer.source) : Utf8Width(lexer.source[i]) = 1
                                     /\ lexer.source[i] \notin ContinuationBytes)
        => /\ lexer.next_result # "Panic"
           /\ \A i \in 1..Len(lexer.tokens) :
                 lexer.tokens[i].type_ # "Eof"
                     => SlicesToLexeme(lexer.source, lexer.tokens[i].span)

\* the lexeme is digits, with at most one dot that has a digit on both sides
IsNumberLexeme(lexeme) ==
    /\ lexeme # <<>>
    /\ \A i \in 1..Len(lexeme) :
          \/ IsDigit(lexeme[i])
          \/ /\ lexeme[i] = "."
             /\ 1 < i /\ i < Len(lexeme)
             /\ IsDigit(lexeme[i - 1]) /\ IsDigit(lexeme[i + 1])
    /\ Cardinality({i \in 1..Len(lexeme) : lexeme[i] = "."}) <= 1

\* C21: a `.` belongs to a number only when a digit follows it directly:
\* `2.` gives Number, Dot, Eof; `.2` gives Dot, Number, Eof; `2.34` gives one
\* Number of span 0..4 and Eof; none of them is a lexical error.  So every
\* Number token is digits with at most one inner dot, and a Number without a
\* dot is followed by a dot only when no digit follows that dot.
C21_NumberDot ==
    /\ Lexed /\ InText("number")
           => lexer.errors = <<>> /\ lexer.tokens = Text.want
    /\ lexer.next_result # "Panic" =>
           \A i \in 1..Len(lexer.tokens) :
               lexer.tokens[i].type_ = "Number" =>
                   LET span == lexer.tokens[i].span
                       lexeme == Lexeme(lexer.source, span) IN
                   /\ IsNumberLexeme(lexeme)
                   /\ (\A k \in 1..Len(lexeme) : lexeme[k] # ".")
                      /\ chars_nth(lexer.source, span.end) = "."
                          => LET after == chars_nth(lexer.source, span.end + 1) IN
                             after = NoChar \/ ~IsDigit(after)

\* the text `1.2.` has been lexed: a Number with its fraction, then the dot
\* that no digit follows as a Dot token
C21_Witness ==
    /\ Lexed
    /\ InText("number")
    /\ lexer.source = <<"1", ".", "2", ".">>
    /\ Len(lexer.tokens) = 3
    /\ lexer.tokens[1] = Token_new(0, 3, "Number")
    /\ lexer.tokens[2].type_ = "Dot"

\* the unterminated-string errors among the lexical errors
Unterminated ==
    {i \in 1..Len(lexer.errors) : lexer.errors[i].error = "UnterminatedStringLiteral"}

\* C22: a `"` with no closing `"` before the end of input yields exactly one
\* UnterminatedStringLiteral error whose position is that of the opening
\* quote, and no String token for it; the tokens recognised before the opening
\* quote are kept and the token list still ends with Eof.  A closed string
\* yields one String token whose span includes both quotes, and no error.
C22_UnterminatedString ==
    Lexed =>
        /\ InText("string") =>
              /\ lexer.tokens = Text.want
              /\ Unterminated = (IF Text.open_at < 0 THEN {} ELSE {Len(lexer.errors)})
              /\ \A i \in Unterminated : lexer.errors[i].starting_at = Text.open_at
              /\ Len(lexer.errors) <= 1
        /\ Cardinality(Unterminated) <= 1
        /\ \A i \in Unterminated :
              LET at == lexer.errors[i].starting_at IN
              /\ chars_nth(lexer.source, at) = "\""
              /\ \A k \in at + 1..CharCount(lexer.source) :
                     chars_nth(lexer.source, k) # "\""
              /\ \A k \in 1..Len(lexer.tokens) :
                     \/ lexer.tokens[k].span.end <= at
                     \/ k = Len(lexer.tokens) /\ lexer.tokens[k].type_ = "Eof"
        /\ \A k \in 1..Len(lexer.tokens) :
              lexer.tokens[k].type_ = "String_" =>
                  LET span == lexer.tokens[k].span IN
                  /\ span.start + 2 <= span.end
                  /\ chars_nth(lexer.source, span.start) = "\""
                  /\ chars_nth(lexer.source, span.end - 1) = "\""
                  /\ \A c \in span.start + 1..span.end - 2 :
                         chars_nth(lexer.source, c) # "\""

\* `x = "a` has been lexed: the three tokens before the opening quote, Eof,
\* and one error at the opening quote
C22_Witness ==
    /\ Lexed
    /\ InText("string")
    /\ Text.open_at = 4
    /\ Len(lexer.tokens) = 3
    /\ lexer.tokens[1].type_ = "Identifier"
    /\ lexer.errors = <<[error |-> "UnterminatedStringLiteral", starting_at |-> 4]>>

\* the depth of the scope stack after declaration d of the running program is
\* evaluated to its end on the interpreter as it stands, when it ends normally,
\* with a runtime error or with a Return
BalancedAt(d) ==
    LET r == evaluate_declaration(Program.source, Program.declarations[d],
                                  [environment_stack |-> environment_stack, out |-> out,
                                   fuel |-> MaxSteps]) IN
    r.kind \in {"Ok", "Err", "Return"} => Len(r.st.environment_stack) = Depth

\* C23: the scope stack is balanced: executing any statement or evaluating any
\* call leaves the environment stack with the depth it had before, whether it
\* ends normally, with a runtime error or with a Return; so when interpret has
\* returned (Ok or Err) the stack holds exactly the global scope, no global
\* binding is ever lost, and a global bound before an error is read by a later
\* interpret call.
C23_ScopesBalanced ==
    /\ Finished => Depth = 1
    /\ history # <<>> => \A d \in 1..Len(Program.declarations) : BalancedAt(d)
    /\ base.environment_stack # <<>> /\ environment_stack # <<>> =>
           \A name \in DOMAIN base.environment_stack[1].values : Defined(1, name)
    /\ (Len(history) = 1 /\ First.family = "balance" /\ Finished) =>
           /\ result.kind = First.want_kind
           /\ Defined(1, <<"x">>)
           /\ Binding(1, <<"x">>).type = "Number"
    /\ (Len(history) = 2 /\ First.family = "balance" /\ Finished
          /\ Program.source = <<"p", "r", "i", "n", "t", " ", "x", ";">>) =>
           /\ result.kind = "Ok"
           /\ out[Len(out)] = <<"1">>

\* after an error inside a call inside a block, with the stack back at the
\* global scope, a later interpret call has printed the global x
C23_Witness ==
    /\ Len(history) = 2
    /\ First.family = "balance"
    /\ First.want_kind = "Err"
    /\ Program.source = <<"p", "r", "i", "n", "t", " ", "x", ";">>
    /\ result.kind = "Ok"
    /\ Depth = 1
    /\ out # <<>>
    /\ out[Len(out)] = <<"1">>

\* the statement a `for` text was parsed to, and the statement standing where
\* the loop is to be: after the initialiser when there is one
ForTop == parser.declarations[1].statement
ForLoop == IF Text.init THEN ForTop.declarations[2].statement ELSE ForTop

\* the initialiser, when there is one, comes first in an enclosing Block
ForInitialiserFirst ==
    Text.init =>
        /\ ForTop.stmt = "Block"
        /\ Len(ForTop.declarations) = 2
        /\ \/ ForTop.declarations[1].decl = "Variable"
           \/ /\ ForTop.declarations[1].decl = "Statement"
              /\ ForTop.declarations[1].statement.stmt = "Expression"
        /\ ForTop.declarations[2].decl = "Statement"

\* the loop body followed by the increment when there is one
IsForBody(body) ==
    IF Text.incr
    THEN /\ body.stmt = "Block"
         /\ Len(body.declarations) = 2
         /\ body.declarations[1] = StatementDeclaration(body.declarations[1].statement)
         /\ body.declarations[1].statement.stmt = "Print"
         /\ body.declarations[2].decl = "Statement"
         /\ body.declarations[2].statement.stmt = "Expression"
         /\ body.declarations[2].statement.expression.expr = "Assignment"
    ELSE body.stmt = "Print"

\* a `for` text has been parsed without an error
ForParsed ==
    /\ InText("for_shape")
    /\ Parsed
    /\ parser.errors = <<>>
    /\ Len(parser.declarations) = 1
    /\ parser.declarations[1].decl = "Statement"

\* C24 as stated: every `for` the parser accepts, for each combination of
\* present or omitted initializer, condition and increment, is lowered to a
\* While node whose body is the loop body followed by the increment when there
\* is one and whose condition is the for-condition, the initializer when there
\* is one placed before the While in an enclosing Block; a `for` whose
\* condition is omitted still repeats its body (until the body fails).
C24_ForLowersToWhile ==
    /\ ForParsed =>
           /\ ForInitialiserFirst
           /\ ForLoop.stmt = "While"
           /\ Text.cond => ForLoop.condition.expr = "Binary"
           /\ IsForBody(ForLoop.body)
    /\ InFirst("for_forever") =>
           /\ Len(out) <= Len(First.want_out)
           /\ out = SubSeq(First.want_out, 1, Len(out))
           /\ Ended => result.kind = "Err" /\ out = First.want_out

\* what the code does: the While node is built only when the condition is
\* present; without a condition the body (followed by the increment) stands
\* where the loop should be and runs once
C24_WhileOnlyWithCondition ==
    /\ ForParsed =>
           /\ ForInitialiserFirst
           /\ IF Text.cond
              THEN /\ ForLoop.stmt = "While"
                   /\ ForLoop.condition.expr = "Binary"
                   /\ IsForBody(ForLoop.body)
              ELSE IsForBody(ForLoop)
    /\ InFirst("for_forever") /\ Ended =>
           /\ result.kind = "Ok"
           /\ out = <<<<"0">>>>

\* a `for` with initialiser and increment and no condition has been parsed and
\* run: it printed once and returned Ok
C24_RunsOnce ==
    /\ InFirst("for_forever")
    /\ First.want_out = <<<<"0">>, <<"1">>, <<"2">>>>
    /\ result.kind = "Ok"
    /\ out = <<<<"0">>>>

\* the token types that start a statement
StatementStarts == {"Class", "Fun", "Var", "For", "If", "While", "Print", "Return"}

\* with the cursor before token p (counted from 0) the search is over: the
\* token before the cursor is `;`, or the token at the cursor starts a
\* statement, or the input is exhausted
SyncStops(tokens, p) ==
    \/ p >= Len(tokens)
    \/ tokens[p].type_ = "Semicolon"
    \/ tokens[p + 1].type_ \in StatementStarts

\* the first position from one token after `failed_at` where the search is over
SyncTarget(tokens, failed_at) ==
    CHOOSE p \in failed_at + 1..Len(tokens) + failed_at + 1 :
        /\ SyncStops(tokens, p)
        /\ \A q \in failed_at + 1..p - 1 : ~SyncStops(tokens, q)

\* this turn of the loop of Parser::parse is one whose declaration failed
FailedTurn ==
    /\ ParseTurn
    /\ parser'.status = "Running"
    /\ parse_declaration(parser, parser.tokens).opt = "None"

\* C25: after a top-level declaration fails to parse, synchronise advances the
\* cursor by one token and then keeps advancing until the token before the
\* cursor is `;` or the token at the cursor is one of class, fun, var, for, if,
\* while, print, return, or the input is exhausted; parsing resumes exactly at
\* that position (the cursor the next turn starts from), nothing else of the
\* parser changes, and the cursor is never moved back.
C25_SynchroniseStops ==
    [][FailedTurn =>
           LET failed == parse_declaration(parser, parser.tokens).self IN
           /\ parser' = [failed EXCEPT
                             !.current_index = SyncTarget(parser.tokens, @)]
           /\ parser'.declarations = parser.declarations
           /\ parser'.current_index > parser.current_index]_vars

\* synchronise has stopped before a token that starts a statement, several
\* tokens after the one that failed, and not after a `;`: the parse that
\* follows has not begun
C25_Witness ==
    /\ InText("sync")
    /\ parser.status = "Running"
    /\ Len(parser.errors) = 1
    /\ parser.declarations = <<>>
    /\ parser.current_index >= 4
    /\ parser.current_index < Len(parser.tokens)
    /\ parser.tokens[parser.current_index].type_ # "Semicolon"
    /\ parser.tokens[parser.current_index + 1].type_ = "Print"

\* the grammar violations recorded so far
GrammarErrors(self) ==
    Cardinality({i \in 1..Len(self.errors) :
                    self.errors[i].error \in
                        {"UnexpectedToken", "UnexpectedEof", "TwoManyArguments"}})

\* C26: every grammar violation recorded as UnexpectedToken, UnexpectedEof or
\* TooManyArguments makes the production that detected it return None, so the
\* top-level declaration attempt it occurs in adds no declaration and records
\* exactly one such error before synchronisation runs; this holds in every
\* production, the clauses of a `for` header, a `var` initialiser and a call's
\* argument list included.
C26_ViolationFailsDeclaration ==
    [][(/\ ParseTurn
        /\ parser'.status # "Panic"
        /\ GrammarErrors(parser') > GrammarErrors(parser))
           => /\ parser'.declarations = parser.declarations
              /\ GrammarErrors(parser') = GrammarErrors(parser) + 1]_vars

\* what the code does on the texts with a violation inside a `for` clause or a
\* `var` initialiser: the number of errors and of declarations it ends with
C26_ClauseErrorsKept ==
    InText("clause") /\ Parsed =>
        /\ GrammarErrors(parser) = Text.errors
        /\ Len(parser.declarations) = Text.declarations

\* `var x = ;` has been parsed: one UnexpectedToken error, and the declaration
\* of x without an initialiser
C26_DeclaredDespiteError ==
    /\ InText("clause")
    /\ Parsed
    /\ Len(parser.tokens) = 5
    /\ GrammarErrors(parser) = 1
    /\ Len(parser.declarations) = 1
    /\ parser.declarations[1].decl = "Variable"
    /\ parser.declarations[1].initialiser = NoneNode

\* the expression of the last declaration parsed, an expression statement, and
\* the span from its first token to the last token before its `;`
LastExpression == parser.declarations[Len(parser.declarations)].statement.expression
LastCovering ==
    LET first == CHOOSE k \in 1..Len(parser.tokens) :
                     /\ \A j \in k..Len(parser.tokens) - 2 :
                            parser.tokens[j].type_ # "Semicolon"
                     /\ k = 1 \/ parser.tokens[k - 1].type_ = "Semicolon" IN
    Span_new(parser.tokens[first].span.start,
             parser.tokens[Len(parser.tokens) - 2].span.end)

\* C27: Expression::span returns a covering span for every expression the
\* parser can construct and never reaches an unimplemented branch: recording
\* InvalidAssignmentTarget for a Grouping, Unary or Logical target, evaluating
\* a Binary expression with such an operand and evaluating a call with such a
\* callee all complete, and the span of an expression statement's expression
\* runs from its first token to its last.
C27_SpanNeverUnimplemented ==
    /\ InText("span") => parser.status # "Panic"
    /\ InFirst("span") => result.kind # "Panic"
    /\ (InText("span_covers") /\ Parsed /\ parser.errors = <<>>) =>
           /\ ~Expression_span_unimplemented(LastExpression)
           /\ Expression_span(LastExpression) = LastCovering

\* what the code does: the parser panics on a Grouping, Unary or Logical
\* assignment target, the interpreter on such an operand of a Binary
\* expression and on such a callee, as the texts say; the span of an
\* Assignment is the span of its name, the span of a Binary expression covers
\* it
C27_SpanPanics ==
    /\ InText("span") =>
           /\ (parser.status = "Panic") => Text.stops = "parse"
           /\ Parsed => Text.stops # "parse"
    /\ InFirst("span") =>
           /\ (result.kind = "Panic") => First.stops = "run"
           /\ Finished => First.stops = "no"
    /\ (InText("span_covers") /\ Parsed /\ parser.errors = <<>>) =>
           /\ ~Expression_span_unimplemented(LastExpression)
           /\ Expression_span(LastExpression) =
                  IF LastExpression.expr = "Assignment"
                  THEN LastExpression.name.span
                  ELSE LastCovering

\* `print (1) + 2;` has been parsed and run: the interpreter panicked in the
\* span of the Binary expression
C27_PanickedInSpan ==
    /\ InFirst("span")
    /\ First.source = <<"p", "r", "i", "n", "t", " ", "(", "1", ")", " ", "+", " ", "2", ";">>
    /\ result.kind = "Panic"
    /\ out = <<>>

\* where a lexical error is
ErrorPosition(error) ==
    IF error.error = "UnexpectedToken" THEN error.at ELSE error.starting_at

\* how many tokens (Eof aside), UnexpectedToken errors and unterminated
\* strings the character position p belongs to
Accounts(p) ==
    Cardinality({k \in 1..Len(lexer.tokens) :
                    /\ lexer.tokens[k].type_ # "Eof"
                    /\ lexer.tokens[k].span.start <= p
                    /\ p < lexer.tokens[k].span.end})
    + Cardinality({i \in 1..Len(lexer.errors) :
                      IF lexer.errors[i].error = "UnexpectedToken"
                      THEN lexer.errors[i].at = p
                      ELSE lexer.errors[i].starting_at <= p})

\* position p is in a `//` comment: from a `//` that is no token up to the end
\* of its line
InComment(p) ==
    \E q \in 0..p :
        /\ chars_nth(lexer.source, q) = "/"
        /\ chars_nth(lexer.source, q + 1) = "/"
        /\ Accounts(q) = 0
        /\ \A r \in q..p : chars_nth(lexer.source, r) # "\n"

\* every character lexed so far is accounted for exactly once, and tokens and
\* errors are in order and behind the cursor
LexerAccounts ==
    lexer.next_result \in {"NotDone", "Done"} =>
        /\ \A p \in 0..lexer.current_position - 1 :
              /\ p < CharCount(lexer.source)
              /\ Accounts(p) <= 1
              /\ Accounts(p) = 0 =>
                     \/ chars_nth(lexer.source, p) \in {" ", "\n", "\r", "\t"}
                     \/ InComment(p)
        /\ Lexed => lexer.current_position = CharCount(lexer.source)
        /\ \A k \in 1..Len(lexer.tokens) :
              /\ lexer.tokens[k].span.start < lexer.tokens[k].span.end
              /\ lexer.tokens[k].type_ # "Eof"
                     => lexer.tokens[k].span.end <= lexer.current_position
              /\ k < Len(lexer.tokens)
                     => lexer.tokens[k].span.end <= lexer.tokens[k + 1].span.start
        /\ \A i \in 1..Len(lexer.errors) :
              /\ ErrorPosition(lexer.errors[i]) < lexer.current_position
              /\ i < Len(lexer.errors)
                     => ErrorPosition(lexer.errors[i]) < ErrorPosition(lexer.errors[i + 1])
              /\ lexer.errors[i].error = "UnexpectedToken" =>
                     LET character == chars_nth(lexer.source, lexer.errors[i].at) IN
                     /\ character \notin {" ", "\n", "\r", "\t", "\"", "/", NoChar}
                     /\ ~IsDigit(character)

\* C28: the lexer accounts for every character of the input exactly once:
\* each character position belongs to exactly one of a token's span, skipped
\* whitespace, a `//` comment, an UnexpectedToken error (one per unmatched
\* character, at its position) or an unterminated string; the cursor never
\* moves backward, the spans of the tokens are in strictly increasing order and
\* do not overlap, and the errors are in increasing position order.
C28_EveryCharacterOnce ==
    /\ []LexerAccounts
    /\ [][lexer.next_result = "NotDone"
              => lexer'.current_position >= lexer.current_position]_vars

\* a text with a comment, tokens, two unexpected characters and an
\* unterminated string has been lexed
C28_Witness ==
    /\ Lexed
    /\ InText("accounts")
    /\ Len(lexer.tokens) >= 4
    /\ Len(lexer.errors) = 3
    /\ lexer.errors[3].error = "UnterminatedStringLiteral"
    /\ \E p \in 0..lexer.current_position - 1 : InComment(p)

\* the declaration attempt of this turn of the loop of Parser::parse, for
\* tokens whose last is Eof, keeps the cursor at or before Eof, records no
\* UnexpectedEof, and when it fails at Eof its last error is UnexpectedToken
\* with the Eof token; only synchronise then takes the cursor past Eof
AttemptWithinEof ==
    LET attempt == parse_declaration(parser, parser.tokens)
        eof == Len(parser.tokens) - 1 IN
    /\ parser.tokens[eof + 1].type_ = "Eof"
    /\ \A k \in 1..eof : parser.tokens[k].type_ # "Eof"
    /\ parser.current_index < eof
    /\ attempt.self.current_index <= eof
    /\ \A i \in 1..Len(attempt.self.errors) :
           attempt.self.errors[i].error # "UnexpectedEof"
    /\ attempt.opt = "Panic" => parser'.current_index = attempt.self.current_index
    /\ attempt.opt = "Some" => parser'.current_index = attempt.self.current_index
    /\ attempt.opt = "None" =>
           /\ parser'.current_index <= eof + 1
           /\ attempt.self.errors # <<>>
           /\ attempt.self.current_index = eof =>
                  /\ parser'.current_index = eof + 1
                  /\ attempt.self.errors[Len(attempt.self.errors)] =
                         Error_UnexpectedToken(
                             attempt.self.errors[Len(attempt.self.errors)]
                                 .expected_token_type,
                             parser.tokens[eof + 1])

\* C29: for every token stream that ends with exactly one Eof, the parser's
\* cursor stays at or before the Eof token while any production runs and can
\* pass it only inside synchronise; so no production reads a missing token,
\* the UnexpectedEof error is never recorded, and running out of input is
\* always reported as UnexpectedToken with the Eof token as the unexpected one.
C29_CursorWithinEof ==
    [][(ParseTurn /\ parser'.status # "Done") => AttemptWithinEof]_vars

\* a declaration has failed at Eof: its last error is UnexpectedToken with
\* Eof, and synchronise has taken the cursor past the Eof token
C29_Witness ==
    /\ InText("sync")
    /\ parser.status = "Running"
    /\ parser.current_index = Len(parser.tokens)
    /\ parser.errors # <<>>
    /\ parser.errors[Len(parser.errors)].error = "UnexpectedToken"
    /\ parser.errors[Len(parser.errors)].unexpected_token_type = "Eof"

RECURSIVE Shapes(_)
\* the expression nodes of a declaration, statement or expression: each as its
\* variant and the type of its operator token ("None" when it has none)
Shapes(node) ==
    IF "decl" \in DOMAIN node
    THEN CASE node.decl = "Function" ->
                  UNION {Shapes(node.body[i]) : i \in 1..Len(node.body)}
           [] node.decl = "Variable" -> Shapes(node.initialiser)
           [] node.decl = "Statement" -> Shapes(node.statement)
    ELSE IF node = NoneNode THEN {}
    ELSE IF "stmt" \in DOMAIN node
    THEN CASE node.stmt \in {"Print", "Expression"} -> Shapes(node.expression)
           [] node.stmt = "Block" ->
                  UNION {Shapes(node.declarations[i]) : i \in 1..Len(node.declarations)}
           [] node.stmt = "If" ->
                  Shapes(node.condition) \cup Shapes(node.then_branch)
                      \cup Shapes(node.else_branch)
           [] node.stmt = "While" -> Shapes(node.condition) \cup Shapes(node.body)
           [] node.stmt = "Return" -> Shapes(node.value)
    ELSE CASE node.expr = "Assignment" -> {<<"Assignment", "None">>} \cup Shapes(node.value)
           [] node.expr \in {"Binary", "Logical"} ->
                  {<<node.expr, node.operator.type_>>}
                      \cup Shapes(node.left) \cup Shapes(node.right)
           [] node.expr = "Call" ->
                  {<<"Call", "None">>} \cup Shapes(node.callee)
                      \cup UNION {Shapes(node.arguments[i]) : i \in 1..Len(node.arguments)}
           [] node.expr = "Grouping" -> {<<"Grouping", "None">>} \cup Shapes(node.expression)
           [] node.expr = "Unary" ->
                  {<<"Unary", node.operator.type_>>} \cup Shapes(node.right)
           [] OTHER -> {<<node.expr, "None">>}

\* the expression nodes of all declarations parsed so far
ParsedShapes == UNION {Shapes(parser.declarations[i]) : i \in 1..Len(parser.declarations)}

BinaryOperators ==
    {"Minus", "Plus", "Slash", "Star", "BangEqual", "EqualEqual", "Greater",
     "GreaterEqual", "Less", "LessEqual"}

\* C30: in every AST the parser produces, the operator of a Binary node is one
\* of - + / * != == > >= < <=, the operator of a Unary node is ! or -, the
\* operator of a Logical node is `and` or `or`, and no Get, Set, Super or This
\* node occurs: the evaluator's branches for other operator types and for
\* those variants are not reached on parsed programs.
C30_OperatorsOfParsedNodes ==
    \A shape \in ParsedShapes :
        /\ shape[1] \in {"Assignment", "Binary", "Call", "Grouping", "Literal",
                         "Logical", "Unary", "Variable"}
        /\ shape[1] = "Binary" => shape[2] \in BinaryOperators
        /\ shape[1] = "Unary" => shape[2] \in {"Bang", "Minus"}
        /\ shape[1] = "Logical" => shape[2] \in {"And", "Or"}

\* a text with every operator has been parsed: all ten Binary operators, both
\* Unary and both Logical operators are in its tree
C30_Witness ==
    /\ InText("operators")
    /\ Parsed
    /\ parser.errors = <<>>
    /\ \A operator \in BinaryOperators : <<"Binary", operator>> \in ParsedShapes
    /\ {<<"Unary", "Bang">>, <<"Unary", "Minus">>, <<"Logical", "And">>,
        <<"Logical", "Or">>} \subseteq ParsedShapes

====
